---- MODULE Spec2Model ----
(***************************************************************************)
(* A model of app.py, the Loop (Mattermost) -> YouGile bot: the dialog     *)
(* store, the callback endpoint mm_actions, the websocket loop             *)
(* run_ws_bot, the wizard helpers start_task_creation and                  *)
(* create_task_and_update_post, and the sweeper auto_cleanup_loop.         *)
(*                                                                         *)
(* Threads.  Flask serves every callback on a thread of its own, the       *)
(* websocket loop and the sweeper are threading.Thread daemons.  A step of *)
(* a thread is at most one operation under STATE_LOCK followed by the      *)
(* outbound calls and unlocked reads the code makes before its next        *)
(* locked operation.                                                       *)
(*                                                                         *)
(* References.  set_state and get_state return the dict stored in STATE,   *)
(* not a copy.  A thread holding such a reference reads the record's       *)
(* current content for as long as the dict is the one stored under its     *)
(* key (live); once the dict is popped or replaced the reference keeps the *)
(* content it had at that moment (state).                                  *)
(*                                                                         *)
(* Environment.  The task service answers every call of a run with the     *)
(* same projects, boards and columns (yougile, mm, chosen at the start).  A    *)
(* callback carries the context of a button of a post the bot made; the    *)
(* run counts as disorder a click on a button the post no longer shows, an *)
(* arrival while another thread is at work, and an outbound call that      *)
(* raises.  The clock advances by leaps.                                   *)
(*                                                                         *)
(* Left out: the default-project dialog (MENU_CHANGE_DEFAULT_PROJECT and   *)
(* the steps prefixed MENU_DEFAULT_PROJECT_ and DEFAULT_PROJECT_) and      *)
(* MENU_SHOW_SHORTCUTS; a relay that fails after a part of its posts.      *)
(* In Spec a set_state reads the clock in the step that takes the lock;    *)
(* SpecSetState has the read and the locked update as two steps.           *)
(*                                                                         *)
(* SpecDeadline is the deadline callback alone, with all seven buttons.    *)
(***************************************************************************)
EXTENDS Integers, Sequences, FiniteSets, TLC

\* ---------------------------------------------------------------- bounds
MaxPosted == 2        \* "posted" frames delivered in a run
MaxClicks == 4        \* callbacks delivered in a run
MaxTime == 2          \* the clock's last value, in minutes
Leap == 2             \* minutes in a tick of the clock; a day lasts as long
MaxDisorder == 1      \* departures from the clean run: an arrival while a thread
                      \* works, a click on a button its post no longer shows,
                      \* an outbound call that raises

\* ---------------------------------------------------------------- values
None == "None"
Missing == "Missing"  \* a key the dict does not have, where that differs from None
NoTime == -1          \* a missing created_at / updated_at
NoDate == -1          \* deadline None
NoId == 0             \* a missing post id / task id

Users == {"U1"}
Roots == {"T1"}
Channel == "CH"
Titles == {"Buy license"}
Untitled == "Untitled"                 \* "Без названия"
BoardLists == {<<>>, <<"B1">>, <<"B1", "B2">>}
ColumnLists == {<<>>, <<"C1">>}
Assignees == {"A1"}
\* The profile lookup that raises instead of returning the profile.
Fails == "fails"
\* What a call for a list gives: the list, or nothing when the call raises.
Fetched(list) == [ok |-> TRUE, content |-> list]
Failed == [ok |-> FALSE, content |-> <<>>]
\* The actor's profile email as Mattermost stores it.
ActorEmail == " Ann@X.io "
\* The company's users and the project lists of a run: in the first the actor
\* is no member of the project, in the second she is.
Roster == <<[id |-> "Y1", email |-> "ann@x.io"],
            [id |-> "Y2", email |-> "Bob@x.io"]>>
ProjectLists ==
  {<<[id |-> "P1", deleted |-> FALSE, users |-> {"Y2"}]>>,
   <<[id |-> "P1", deleted |-> FALSE, users |-> {"Y1", "Y2"}]>>}
DeadlineChoices == {"none", "tomorrow", "custom"}   \* of the seven buttons
\* The plain messages of a run: <<text, number of files>>.
Messages == {<<"", 1>>, <<"13/11/2025", 1>>, <<"2025-11-13", 0>>}

Handlers == {"h1", "h2"}
Workers == Handlers \cup {"ws"}
Keys == Users \X (Roots \cup {None})
NoKey == <<None, None>>

Range(s) == {s[i] : i \in DOMAIN s}

\* AUTO_FINISH_TIMEOUT_MINUTES, read from the environment (5 when unset); the
\* clock of the model counts minutes.
AUTO_FINISH_TIMEOUT_MINUTES == 1

\* ---------------------------------------------------------------- records
\* A dict of Store.  exists = FALSE stands for "no entry under the key";
\* a field that is None or missing reads as None / NoTime / NoDate / NoId / <<>>
\* (task_title apart, which the code reads with a default: Missing or None).
NoRecord ==
  [exists |-> FALSE, step |-> None, task_title |-> Missing, project_id |-> None,
   board_id |-> None, column_id |-> None, assignee_id |-> None,
   deadline_choice |-> None, deadline |-> NoDate, post_ids |-> <<>>,
   created_at |-> NoTime, updated_at |-> NoTime, yougile_task_id |-> NoId,
   task_url |-> NoId, channel_id |-> None, root_post_id |-> None,
   ask_title_post_id |-> NoId]

\* The {} that defaultdict(dict) makes on Store[key].
BlankDict == [NoRecord EXCEPT !.exists = TRUE]

Merge(s, data) == [f \in DOMAIN s |-> IF f \in DOMAIN data THEN data[f] ELSE s[f]]

\* set_state's effect on the dict under the key: s is that dict (NoRecord when
\* the key is missing), t the value of time.time().
SetStateRec(s, data, t) ==
  LET d0 == IF s.exists THEN s ELSE BlankDict
      d1 == IF d0.created_at = NoTime THEN [d0 EXCEPT !.created_at = t] ELSE d0
      d2 == Merge(d1, data)
  IN  [d2 EXCEPT !.updated_at = t]

\* For comparison: "month" taken as 31 days.
calc_deadline_month31(choice, d) ==
  CASE choice = "today" -> d
    [] choice = "tomorrow" -> d + 1
    [] choice = "day_after_tomorrow" -> d + 2
    [] choice = "week" -> d + 7
    [] choice = "month" -> d + 31
    [] OTHER -> d

\* For comparison: emails compared as they are written.
AsWritten(email) == IF email \in {None, "  "} THEN "" ELSE email

\* (email or "").strip().lower() on the emails of the model.
LowerTrim(email) ==
  CASE email = " Ann@X.io " -> "ann@x.io"
    [] email = "ann@x.io" -> "ann@x.io"
    [] email = "Bob@x.io" -> "bob@x.io"
    [] email = "bob@x.io" -> "bob@x.io"
    [] OTHER -> ""

\* user_email_by_id, lines 593-598: the last entry of an id counts; entries
\* without id or email are skipped.
RECURSIVE user_email_by_id(_, _)
user_email_by_id(all_users, uid) ==
  IF all_users = <<>> THEN ""
  ELSE LET u == all_users[Len(all_users)]
       IN  IF u.id = uid /\ u.id # None /\ LowerTrim(u.email) # ""
           THEN LowerTrim(u.email)
           ELSE user_email_by_id(SubSeq(all_users, 1, Len(all_users) - 1), uid)

\* The loop over the projects, lines 609-628.
RECURSIVE allowed_projects(_, _, _)
allowed_projects(all_projects, all_users, mm_email) ==
  IF all_projects = <<>> THEN <<>>
  ELSE LET p == all_projects[1]
           rest == allowed_projects(Tail(all_projects), all_users, mm_email)
       IN  IF p.deleted THEN rest
           ELSE IF \E uid \in p.users :
                     /\ user_email_by_id(all_users, uid) # ""
                     /\ user_email_by_id(all_users, uid) = mm_email
                THEN <<p>> \o rest
                ELSE rest

\* For comparison: a resolver that allows every project that is not deleted
\* when the actor or the roster cannot be resolved.
get_allowed_fail_open(email, users, projects) ==
  LET mm_email == IF email = Fails THEN "" ELSE LowerTrim(email)
      all_projects == IF projects.ok THEN projects.content ELSE <<>>
      NotDeleted(p) == ~p.deleted
  IN  IF mm_email = "" \/ ~users.ok
      THEN SelectSeq(all_projects, NotDeleted)
      ELSE allowed_projects(all_projects, users.content, mm_email)

\* get_allowed_projects_for_mm_user, lines 571-630: email is the profile's
\* email (Fails when mm_get_user raises), users and projects what the calls
\* for /users and /projects give.
get_allowed_projects_for_mm_user(email, users, projects) ==
  LET mm_email == IF email = Fails THEN "" ELSE LowerTrim(email)
      all_users == IF users.ok THEN users.content ELSE <<>>
      all_projects == IF projects.ok THEN projects.content ELSE <<>>
  IN  IF mm_email = "" THEN <<>>
      ELSE allowed_projects(all_projects, all_users, mm_email)

\* calc_deadline: the date for a non-custom, non-none choice, given date.today().
calc_deadline(choice, d) ==
  CASE choice = "today" -> d
    [] choice = "tomorrow" -> d + 1
    [] choice = "day_after_tomorrow" -> d + 2
    [] choice = "week" -> d + 7
    [] choice = "month" -> d + 30
    [] OTHER -> d

\* datetime.strptime(text, "%Y-%m-%d").date() on the texts of the model:
\* the day number of the date, or NoDate for ValueError.
ParseDate(text) == IF text = "2025-11-13" THEN 13 ELSE NoDate

\* Variants of the operators below, for comparison: a create call that drops
\* the deadline, a board step that always asks, a relay that sends nothing.
CreateArgsNoDeadline(task_title, st) ==
  [title |-> task_title, column_id |-> st.column_id,
   assignee_id |-> st.assignee_id, deadline |-> NoDate]

BoardBranchAlwaysAsks(boards) == "set_board_options"

ForwardsNothing(id, l) == <<>>

\* ---------------------------------------------------------------- state
VARIABLES
  Store,                \* STATE (a reserved word of TLA+): key -> dict
  CHANNEL_PROJECT_MAP,  \* the channel's default project, or None
  pc,                   \* each thread's position
  loc,                  \* each worker's local variables
  items,                \* the sweeper's snapshot: key -> [pending, live, state]
  cur,                  \* the key the sweeper is auto-finishing
  snow,                 \* the sweeper's "now" of the current scan
  now,                  \* time.time(), in minutes
  posts,                \* every mm_post made; a post's id is its index
  edits,                \* every mm_patch_post made: <<post id, kind>>
  deleted,              \* post ids for which a delete was issued
  tasks,                \* every yg_create_task that succeeded; id = index
  chat,                 \* every yg_send_chat_message that succeeded
  reacts,               \* mm_add_reaction calls made
  nposted,              \* "posted" frames delivered
  nclick,               \* callbacks delivered
  picked,               \* history: the title of the last create command, the
                        \*   last value clicked for each selection, the day of
                        \*   the deadline click
  nfail,                \* outbound calls that raised
  nover,                \* arrivals out of order
  yougile,              \* the task service: allowed projects, boards, columns
  mm,                   \* the chat platform's websocket: whether it accepts
                        \*   connections, the connections made, the frames
                        \*   delivered on the current one
  dialog                \* history, per key: ended (the dialog was ended and not
                        \*   started anew), since (the posts made before it
                        \*   began), menu (the menu post its title prompt is)

vars == <<Store, CHANNEL_PROJECT_MAP, pc, loc, items, cur, snow, now,
          posts, edits, deleted, tasks, chat, reacts, nclick, nposted, nfail, nover,
          yougile, mm, dialog, picked>>

\* A task service in which the actor is a member of the one project, which
\* has one board with one column.
OneOfEach ==
  [users |-> Fetched(Roster),
   projects |->
     Fetched(<<[id |-> "P1", deleted |-> FALSE, users |-> {"Y1", "Y2"}]>>),
   boards |-> <<"B1">>, columns |-> <<"C1">>]

\* The websocket after run_ws_bot's first connection, lines 1991-2004.
Connected ==
  [accepts |-> TRUE, conn |-> 1, frames |-> 0, email |-> ActorEmail]

NoPick ==
  [title |-> None, column |-> None, assignee |-> None, choice |-> None,
   day |-> 0]

IdleLoc ==
  [key |-> NoKey, step |-> None, value |-> None, ctx_title |-> None,
   ctx_project |-> None, ctx_board |-> None, post_id |-> NoId,
   task_title |-> None, text |-> "", files |-> 0,
   live |-> FALSE, state |-> NoRecord,
   project_id |-> None, board_id |-> None, boards |-> <<>>,
   columns |-> <<>>, allowed |-> {},
   post_ids |-> <<>>, date |-> NoDate, task_id |-> NoId, root |-> None,
   clock |-> NoTime]

NoItem == [pending |-> FALSE, live |-> FALSE, state |-> NoRecord]

Post(kind, user, root, title, project, board, opts) ==
  [kind |-> kind, user |-> user, root |-> root, title |-> title,
   project |-> project, board |-> board, opts |-> opts]

Notice(kind, root) == Post(kind, None, root, None, None, None, {})

\* The dict a reference of thread t reads now.
Deref(t) == IF loc[t].live THEN Store[loc[t].key] ELSE loc[t].state

\* Popping or replacing the dict under k: every reference to it keeps the
\* content the dict had.
OrphanLoc(L, k) ==
  [t \in DOMAIN L |->
     IF L[t].live /\ L[t].key = k
     THEN [L[t] EXCEPT !.live = FALSE, !.state = Store[k]]
     ELSE L[t]]

OrphanItems(I, k) ==
  [x \in DOMAIN I |->
     IF x = k /\ I[x].live
     THEN [I[x] EXCEPT !.live = FALSE, !.state = Store[k]]
     ELSE I[x]]

Init ==
  /\ Store = [k \in Keys |-> NoRecord]
  /\ CHANNEL_PROJECT_MAP \in {None, "P1"}
  /\ pc = [t \in Workers \cup {"sweeper"} |-> "idle"]
  /\ loc = [t \in Workers |-> IdleLoc]
  /\ items = [k \in Keys |-> NoItem]
  /\ cur = NoKey
  /\ snow = 0
  /\ now = 0
  /\ posts = <<>>
  /\ edits = {}
  /\ deleted = {}
  /\ tasks = <<>>
  /\ chat = <<>>
  /\ reacts = 0
  /\ nposted = 0
  /\ nclick = 0
  /\ picked = NoPick
  /\ nfail = 0
  /\ nover = 0
  /\ yougile \in [users : {Fetched(Roster)},
                  projects : {Fetched(l) : l \in ProjectLists},
                  boards : BoardLists, columns : ColumnLists]
  /\ mm = Connected
  /\ dialog = [k \in Keys |-> [ended |-> FALSE, since |-> 0, menu |-> NoId]]

\* ---------------------------------------------------------------- helpers
GotoL(L, t, label, l) ==
  /\ pc' = [pc EXCEPT ![t] = label]
  /\ loc' = [L EXCEPT ![t] = l]

Goto(t, label, l) == GotoL(loc, t, label, l)

Done(t) == Goto(t, "idle", IdleLoc)

\* An exception leaves the handler.  mm_actions catches it and posts the error
\* in the thread (lines 1689-1694); run_ws_bot catches it outside its receive
\* loop, sleeps and connects again (lines 2236-2241): nothing is posted.
RaiseL(L, t, ps) ==
  /\ nover + nfail < MaxDisorder
  /\ nfail' = nfail + 1
  /\ IF t \in Handlers
     THEN /\ posts' = Append(ps, Notice("error", loc[t].key[2]))
          /\ GotoL(L, t, "idle", IdleLoc)
     ELSE /\ posts' = ps
          /\ GotoL(L, t, "ws_reconnect", IdleLoc)

Raise(t, ps) == RaiseL(loc, t, ps)

\* The buttons and select options a post has carried: <<step, selected value>>.
Buttons(p) ==
  LET k == posts[p].kind
      cancel == {<<"CANCEL", None>>}
  IN  CASE k = "menu" ->
             {<<"MENU_CREATE_TASK", None>>, <<"MENU_CANCEL", None>>}
             \cup (IF <<p, "title_prompt">> \in edits THEN cancel ELSE {})
        [] k = "project_prompt" ->
             {<<"CHOOSE_PROJECT", v>> : v \in posts[p].opts} \cup cancel
        [] k = "board_prompt" ->
             {<<"CHOOSE_BOARD", v>> : v \in posts[p].opts} \cup cancel
        [] k = "column_prompt" ->
             {<<"CHOOSE_COLUMN", v>> : v \in posts[p].opts} \cup cancel
        [] k = "assignee_prompt" ->
             {<<"CHOOSE_ASSIGNEE", v>> : v \in posts[p].opts} \cup cancel
        [] k = "deadline_prompt" ->
             {<<"CHOOSE_DEADLINE", v>> : v \in posts[p].opts} \cup cancel
        [] k = "task_created" -> {<<"FINISH", None>>}
        [] OTHER -> {}

\* The buttons a post shows now: none once a delete was issued for it or an
\* edit took its attachments; the menu edited into the title prompt shows
\* the cancel button alone (lines 1104-1113).
Shown(p) ==
  IF p \in deleted \/ \E e \in edits : e[1] = p /\ e[2] # "title_prompt"
  THEN {}
  ELSE IF <<p, "title_prompt">> \in edits THEN {<<"CANCEL", None>>}
  ELSE Buttons(p)

\* The task_title a button's context carries.
ContextTitle(p, step) ==
  IF posts[p].kind = "menu"
  THEN (IF step = "CANCEL" THEN Untitled ELSE None)
  ELSE posts[p].title

\* date.today(), a day number.
Today == now \div Leap

\* Frames shared by the steps below.
SetState(t, k, data) ==
  Store' = [Store EXCEPT ![k] = SetStateRec(@, data, now)]

EmptyData == <<>>

Rest == <<CHANNEL_PROJECT_MAP, items, cur, snow, now, chat, reacts, nclick, nposted,
          nover, yougile, mm, dialog, picked>>

\* An arrival while some thread is between its first and its last step.
Busy == \E t \in DOMAIN pc : pc[t] # "idle"

Arrival(late) ==
  LET cost == (IF Busy THEN 1 ELSE 0) + (IF late THEN 1 ELSE 0)
  IN  nover + nfail + cost <= MaxDisorder /\ nover' = nover + cost

Arrive == Arrival(FALSE)

\* The threads of the server's pool are interchangeable: the first free one.
FreeHandler == IF pc["h1"] = "idle" THEN "h1" ELSE "h2"

\* The triggers that start a dialog: the create command, the menu's button.
Started(k, n, m) ==
  dialog' = [dialog EXCEPT ![k] = [ended |-> FALSE, since |-> n, menu |-> m]]

Ended(k) == dialog' = [dialog EXCEPT ![k].ended = TRUE]

\* start_task_creation stores the record of the dialog a create command
\* starts: the dialog's posts are the ones made from here on.
Begun(k, kind) ==
  dialog' = IF kind = "create"
            THEN [dialog EXCEPT ![k].since = Len(posts), ![k].menu = NoId]
            ELSE dialog

Pick(step, v) ==
  CASE step = "CHOOSE_COLUMN" -> [picked EXCEPT !.column = v]
    [] step = "CHOOSE_ASSIGNEE" -> [picked EXCEPT !.assignee = v]
    [] step = "CHOOSE_DEADLINE" -> [picked EXCEPT !.choice = v, !.day = Today]
    [] OTHER -> picked

\* ---------------------------------------------------------------- environment
Tick ==
  /\ now + Leap <= MaxTime
  /\ now' = now + Leap
  /\ Arrive
  /\ UNCHANGED <<Store, CHANNEL_PROJECT_MAP, pc, loc, items, cur, snow,
                 posts, edits, deleted, tasks, chat, reacts, nclick, nposted, nfail,
                 yougile, mm, dialog, picked>>

\* A click on a button of post p reaches POST /mattermost/actions.  The key
\* is the one the button's context names (lines 1072-1084).
Click(h, p, step, v) ==
  /\ pc[h] = "idle"
  /\ h = FreeHandler
  /\ nclick < MaxClicks
  /\ Arrival(<<step, v>> \notin Shown(p))
  /\ IF step = "MENU_CREATE_TASK"
     THEN Started(<<posts[p].user, posts[p].root>>, Len(posts), p)
     ELSE UNCHANGED dialog
  /\ posts[p].user \in Users
  /\ posts[p].root \in Roots
  /\ <<step, v>> \in Buttons(p)
  /\ nclick' = nclick + 1
  /\ picked' = Pick(step, v)
  /\ Goto(h, "mm_actions",
          [IdleLoc EXCEPT !.key = <<posts[p].user, posts[p].root>>,
                          !.step = step, !.value = v,
                          !.ctx_title = ContextTitle(p, step),
                          !.ctx_project = posts[p].project,
                          !.ctx_board = posts[p].board,
                          !.post_id = p])
  /\ UNCHANGED <<Store, CHANNEL_PROJECT_MAP, items, cur, snow, now,
                 posts, edits, deleted, tasks, chat, reacts, nfail, yougile, mm,
                 nposted>>

\* mm_actions, lines 1086-1087, and the dispatch on step.
FirstLabel(step) ==
  CASE step = "MENU_CREATE_TASK" -> "menu_create_task"
    [] step = "CHOOSE_PROJECT" -> "project_set"
    [] step = "CHOOSE_BOARD" -> "board_load"
    [] step = "CHOOSE_COLUMN" -> "column_load"
    [] step = "CHOOSE_ASSIGNEE" -> "assignee_set"
    [] step = "CHOOSE_DEADLINE" -> "deadline_set"
    [] step = "MENU_CANCEL" -> "menu_cancel"
    [] step = "CANCEL" -> "cancel_load"
    [] step = "FINISH" -> "finish_load"

\* context.get("task_title") or state.get("task_title", "Без названия")
ResolveTitle(ctx_title, rec) ==
  IF ctx_title # None THEN ctx_title
  ELSE IF rec.task_title = Missing THEN Untitled
  ELSE rec.task_title

ActLoad(h) ==
  /\ pc[h] = "mm_actions"
  /\ Goto(h, FirstLabel(loc[h].step),
          [loc[h] EXCEPT !.task_title =
                           ResolveTitle(loc[h].ctx_title, Store[loc[h].key])])
  /\ UNCHANGED <<Rest, Store, posts, edits, deleted, tasks, nfail>>

\* MENU_CREATE_TASK, lines 1091-1115.
MenuCreateTask(h) ==
  /\ pc[h] = "menu_create_task"
  /\ Store' = [Store EXCEPT ![loc[h].key] =
       SetStateRec(@, [step |-> "ASK_TASK_TITLE", channel_id |-> Channel,
                       task_title |-> None,
                       ask_title_post_id |-> loc[h].post_id,
                       post_ids |-> <<loc[h].post_id>>], now)]
  /\ \/ /\ edits' = edits \cup {<<loc[h].post_id, "title_prompt">>}
        /\ Done(h)
        /\ UNCHANGED <<posts, nfail>>
     \/ /\ Raise(h, posts)
        /\ UNCHANGED edits
  /\ UNCHANGED <<Rest, deleted, tasks>>

\* ---------------------------------------------------------------- wizard
\* CHOOSE_PROJECT, lines 1368-1383.  (The get_state of line 1373 reads only
\* project_options, the titles, which the model leaves out.)
ProjectSet(h) ==
  /\ pc[h] = "project_set"
  /\ SetState(h, loc[h].key,
       [step |-> "CHOOSE_PROJECT", task_title |-> loc[h].task_title,
        project_id |-> loc[h].value, channel_id |-> Channel])
  /\ Goto(h, "yg_get_boards",
          [loc[h] EXCEPT !.live = TRUE, !.project_id = loc[h].value])
  /\ UNCHANGED <<Rest, posts, edits, deleted, tasks, nfail>>

\* The branch on the number of boards, lines 1393-1434 and 1895-1936.
BoardBranch(boards) ==
  IF Len(boards) = 1 THEN "auto_board" ELSE "set_board_options"

\* yg_get_boards and what follows it up to the next set_state: lines 1385-1399
\* in mm_actions (which edits the project prompt), 1893-1901 in
\* start_task_creation (which does not).
FetchBoards(t) ==
  /\ pc[t] = "yg_get_boards"
  /\ \/ LET boards == yougile.boards IN
          /\ edits' = IF t \in Handlers
                      THEN edits \cup {<<loc[t].post_id, "project_chosen">>}
                      ELSE edits
          /\ IF boards = <<>>
             THEN /\ posts' = Append(posts, Notice("no_boards", loc[t].key[2]))
                  /\ Done(t)
             ELSE /\ posts' = posts
                  /\ Goto(t, BoardBranch(boards), [loc[t] EXCEPT !.boards = boards])
          /\ UNCHANGED nfail
     \/ /\ Raise(t, posts)
        /\ UNCHANGED edits
  /\ UNCHANGED <<Rest, Store, deleted, tasks>>

\* Exactly one board: it is selected without a prompt, lines 1401-1410 and
\* 1903-1912.
AutoBoard(t) ==
  /\ pc[t] = "auto_board"
  /\ SetState(t, loc[t].key,
       [step |-> "CHOOSE_BOARD", board_id |-> loc[t].boards[1]])
  /\ Goto(t, "yg_get_columns",
          [loc[t] EXCEPT !.live = TRUE, !.board_id = loc[t].boards[1]])
  /\ UNCHANGED <<Rest, posts, edits, deleted, tasks, nfail>>

\* yg_get_columns: lines 1412-1419 and 1914-1921 (no columns: a post), lines
\* 1467-1474 (CHOOSE_BOARD; no columns: the board prompt is edited).
FetchColumns(t) ==
  /\ pc[t] = "yg_get_columns"
  /\ \/ LET columns == yougile.columns IN
          /\ IF columns = <<>>
             THEN /\ IF loc[t].step = "CHOOSE_BOARD"
                     THEN /\ edits' = edits \cup {<<loc[t].post_id, "no_columns">>}
                          /\ posts' = posts
                     ELSE /\ posts' = Append(posts,
                                             Notice("no_columns", loc[t].key[2]))
                          /\ edits' = edits
                  /\ Done(t)
             ELSE /\ Goto(t, "set_column_options",
                          [loc[t] EXCEPT !.columns = columns])
                  /\ UNCHANGED <<posts, edits>>
          /\ UNCHANGED nfail
     \/ /\ Raise(t, posts)
        /\ UNCHANGED edits
  /\ UNCHANGED <<Rest, Store, deleted, tasks>>

\* set_state({"column_options": ...}), lines 1421-1422, 1476-1477, 1923-1924:
\* the titles are not modelled, the call still stamps (or makes) the record.
SetColumnOptions(t) ==
  /\ pc[t] = "set_column_options"
  /\ SetState(t, loc[t].key, EmptyData)
  /\ Goto(t, "post_column_prompt", loc[t])
  /\ UNCHANGED <<Rest, posts, edits, deleted, tasks, nfail>>

\* The column prompt and the read of state["post_ids"], lines 1424-1432,
\* 1479-1494 (CHOOSE_BOARD: the board prompt is edited first), 1926-1934.
PostColumnPrompt(t) ==
  /\ pc[t] = "post_column_prompt"
  /\ \/ /\ edits' = IF loc[t].step = "CHOOSE_BOARD"
                    THEN edits \cup {<<loc[t].post_id, "board_chosen">>}
                    ELSE edits
        /\ posts' = Append(posts,
             Post("column_prompt", loc[t].key[1], loc[t].key[2],
                  loc[t].task_title, loc[t].project_id, loc[t].board_id,
                  Range(loc[t].columns)))
        /\ Goto(t, "set_post_ids",
                [loc[t] EXCEPT !.post_ids =
                                 Append(Deref(t).post_ids, Len(posts) + 1)])
        /\ UNCHANGED nfail
     \/ /\ Raise(t, posts)
        /\ UNCHANGED edits
  /\ UNCHANGED <<Rest, Store, deleted, tasks>>

\* set_state({"post_ids": ...}): lines 1431, 1445, 1493, 1533, 1585, 1933,
\* 1947, 1977.
SetPostIds(t) ==
  /\ pc[t] = "set_post_ids"
  /\ SetState(t, loc[t].key, [post_ids |-> loc[t].post_ids])
  /\ Done(t)
  /\ UNCHANGED <<Rest, posts, edits, deleted, tasks, nfail>>

\* Two boards or more: set_state({"board_options": ...}), lines 1435-1436 and
\* 1937-1938.
SetBoardOptions(t) ==
  /\ pc[t] = "set_board_options"
  /\ SetState(t, loc[t].key, EmptyData)
  /\ Goto(t, "post_board_prompt", loc[t])
  /\ UNCHANGED <<Rest, posts, edits, deleted, tasks, nfail>>

\* The board prompt, lines 1438-1446 and 1940-1948.
PostBoardPrompt(t) ==
  /\ pc[t] = "post_board_prompt"
  /\ \/ /\ posts' = Append(posts,
             Post("board_prompt", loc[t].key[1], loc[t].key[2],
                  loc[t].task_title, loc[t].project_id, None,
                  Range(loc[t].boards)))
        /\ Goto(t, "set_post_ids",
                [loc[t] EXCEPT !.post_ids =
                                 Append(Deref(t).post_ids, Len(posts) + 1)])
        /\ UNCHANGED nfail
     \/ Raise(t, posts)
  /\ UNCHANGED <<Rest, Store, edits, deleted, tasks>>

\* state.get(f) or context.get(f)
OrContext(v, ctx) == IF v # None THEN v ELSE ctx

\* CHOOSE_BOARD, lines 1450-1458.
BoardLoad(h) ==
  /\ pc[h] = "board_load"
  /\ Goto(h, "board_set",
          [loc[h] EXCEPT !.project_id =
                           OrContext(Store[loc[h].key].project_id,
                                     loc[h].ctx_project)])
  /\ UNCHANGED <<Rest, Store, posts, edits, deleted, tasks, nfail>>

\* CHOOSE_BOARD, lines 1460-1465.
BoardSet(h) ==
  /\ pc[h] = "board_set"
  /\ SetState(h, loc[h].key,
       [step |-> "CHOOSE_BOARD", project_id |-> loc[h].project_id,
        board_id |-> loc[h].value])
  /\ Goto(h, "yg_get_columns",
          [loc[h] EXCEPT !.live = TRUE, !.board_id = loc[h].value])
  /\ UNCHANGED <<Rest, posts, edits, deleted, tasks, nfail>>

\* CHOOSE_COLUMN, lines 1498-1507.
ColumnLoad(h) ==
  /\ pc[h] = "column_load"
  /\ Goto(h, "column_set",
          [loc[h] EXCEPT
             !.project_id = OrContext(Store[loc[h].key].project_id,
                                      loc[h].ctx_project),
             !.board_id = OrContext(Store[loc[h].key].board_id,
                                    loc[h].ctx_board)])
  /\ UNCHANGED <<Rest, Store, posts, edits, deleted, tasks, nfail>>

\* CHOOSE_COLUMN, lines 1509-1514.
ColumnSet(h) ==
  /\ pc[h] = "column_set"
  /\ SetState(h, loc[h].key,
       [step |-> "CHOOSE_COLUMN", project_id |-> loc[h].project_id,
        board_id |-> loc[h].board_id, column_id |-> loc[h].value])
  /\ Goto(h, "post_assignee_prompt", [loc[h] EXCEPT !.live = TRUE])
  /\ UNCHANGED <<Rest, posts, edits, deleted, tasks, nfail>>

\* CHOOSE_COLUMN, lines 1516-1534: the users, the edit, the assignee prompt.
PostAssigneePrompt(h) ==
  /\ pc[h] = "post_assignee_prompt"
  /\ \/ /\ edits' = edits \cup {<<loc[h].post_id, "column_chosen">>}
        /\ posts' = Append(posts,
             Post("assignee_prompt", loc[h].key[1], loc[h].key[2],
                  loc[h].task_title, loc[h].project_id, loc[h].board_id,
                  Assignees))
        /\ Goto(h, "set_post_ids",
                [loc[h] EXCEPT !.post_ids =
                                 Append(Deref(h).post_ids, Len(posts) + 1)])
        /\ UNCHANGED nfail
     \/ /\ Raise(h, posts)
        /\ UNCHANGED edits
  /\ UNCHANGED <<Rest, Store, deleted, tasks>>

\* CHOOSE_ASSIGNEE, lines 1538-1558 (a failure of the users call is swallowed).
AssigneeSet(h) ==
  /\ pc[h] = "assignee_set"
  /\ SetState(h, loc[h].key,
       [step |-> "CHOOSE_ASSIGNEE", assignee_id |-> loc[h].value])
  /\ Goto(h, "assignee_name", [loc[h] EXCEPT !.live = TRUE])
  /\ UNCHANGED <<Rest, posts, edits, deleted, tasks, nfail>>

\* CHOOSE_ASSIGNEE, lines 1560-1562: set_state({"assignee_name": ...}).
AssigneeName(h) ==
  /\ pc[h] = "assignee_name"
  /\ SetState(h, loc[h].key, EmptyData)
  /\ Goto(h, "post_deadline_prompt", [loc[h] EXCEPT !.live = TRUE])
  /\ UNCHANGED <<Rest, posts, edits, deleted, tasks, nfail>>

\* CHOOSE_ASSIGNEE, lines 1564-1586: the edit and the deadline prompt.
PostDeadlinePrompt(h) ==
  /\ pc[h] = "post_deadline_prompt"
  /\ \/ /\ edits' = edits \cup {<<loc[h].post_id, "assignee_chosen">>}
        /\ posts' = Append(posts,
             Post("deadline_prompt", loc[h].key[1], loc[h].key[2],
                  loc[h].task_title, None, None, DeadlineChoices))
        /\ Goto(h, "set_post_ids",
                [loc[h] EXCEPT !.post_ids =
                                 Append(Deref(h).post_ids, Len(posts) + 1)])
        /\ UNCHANGED nfail
     \/ /\ Raise(h, posts)
        /\ UNCHANGED edits
  /\ UNCHANGED <<Rest, Store, deleted, tasks>>

\* CHOOSE_DEADLINE, lines 1590-1605: the choice is stored; "custom" edits the
\* prompt into the request for a date and the handler returns.
DeadlineSet(h) ==
  /\ pc[h] = "deadline_set"
  /\ SetState(h, loc[h].key,
       [step |-> "CHOOSE_DEADLINE", deadline_choice |-> loc[h].value])
  /\ IF loc[h].value = "custom"
     THEN \/ /\ edits' = edits \cup {<<loc[h].post_id, "ask_date">>}
             /\ Done(h)
             /\ UNCHANGED <<posts, nfail>>
          \/ /\ Raise(h, posts)
             /\ UNCHANGED edits
     ELSE /\ Goto(h, "deadline_date", [loc[h] EXCEPT !.live = TRUE])
          /\ UNCHANGED <<posts, edits, nfail>>
  /\ UNCHANGED <<Rest, deleted, tasks>>

\* The "deadline" a CHOOSE_DEADLINE callback stores, lines 1606-1615.
DeadlineOf(choice, d) ==
  IF choice = "none" THEN NoDate ELSE calc_deadline(choice, d)

DeadlineDate(h) ==
  /\ pc[h] = "deadline_date"
  /\ SetState(h, loc[h].key, [deadline |-> DeadlineOf(loc[h].value, Today)])
  /\ Goto(h, "create_task", [loc[h] EXCEPT !.live = TRUE])
  /\ UNCHANGED <<Rest, posts, edits, deleted, tasks, nfail>>

\* ---------------------------------------------------------------- task creation
\* The arguments of yg_create_task, lines 1721-1733: the title is the
\* caller's task_title, the rest is read from the caller's state.
CreateArgs(task_title, st) ==
  [title |-> task_title, column_id |-> st.column_id,
   assignee_id |-> st.assignee_id, deadline |-> st.deadline]

\* A number of milliseconds since the epoch is written as the day of the
\* epoch and the milliseconds into that day: day * 86400000 + ms_of_day.
\* For comparison: the date taken at 00:00:00 UTC.
MidnightUtcMs(d) == [day |-> d, ms_of_day |-> 0]

\* int(datetime(y, m, d, 12, 0, 0, tzinfo=utc).timestamp() * 1000), lines
\* 458-465, for the date that is day d of the epoch.
NoonUtcMs(d) == [day |-> d, ms_of_day |-> 12 * 3600 * 1000]

\* The body yg_create_task posts, lines 445-469: "assigned" and "deadline"
\* are fields only for an assignee and a date.
yg_create_task(args) ==
  [title |-> args.title, columnId |-> args.column_id]
    @@ (IF args.assignee_id # None
        THEN [assigned |-> <<args.assignee_id>>] ELSE <<>>)
    @@ (IF args.deadline # NoDate
        THEN [deadline |-> [deadline |-> NoonUtcMs(args.deadline),
                            withTime |-> FALSE]]
        ELSE <<>>)

\* create_task_and_update_post, lines 1715-1734: mm_get_user, yg_create_task.
\* "by" is not an argument: it names the thread's key.
CreateTask(t) ==
  /\ pc[t] = "create_task"
  /\ \/ /\ tasks' = Append(tasks,
                           [args |-> CreateArgs(loc[t].task_title, Deref(t)),
                            body |-> yg_create_task(
                                       CreateArgs(loc[t].task_title, Deref(t))),
                            by |-> loc[t].key])
        /\ Goto(t, "update_post", [loc[t] EXCEPT !.task_id = Len(tasks) + 1])
        /\ UNCHANGED <<posts, nfail>>
     \/ /\ Raise(t, posts)
        /\ UNCHANGED tasks
  /\ UNCHANGED <<Rest, Store, edits, deleted>>

\* Lines 1744-1796: the deadline prompt is edited and, when the state has a
\* channel_id, the "task created" post with the Finish button is made.
UpdatePost(t) ==
  /\ pc[t] = "update_post"
  /\ LET st == Deref(t) IN
     \/ /\ edits' = edits \cup {<<loc[t].post_id, "deadline_chosen">>}
        /\ IF st.channel_id # None
           THEN /\ posts' = Append(posts,
                      Post("task_created", loc[t].key[1], st.root_post_id,
                           loc[t].task_title, None, None, {}))
                /\ Goto(t, "set_optional_attach",
                        [loc[t] EXCEPT !.root = st.root_post_id,
                                       !.post_ids = Append(st.post_ids,
                                                           Len(posts) + 1)])
           ELSE /\ posts' = posts
                /\ Goto(t, "set_optional_attach",
                        [loc[t] EXCEPT !.root = st.root_post_id,
                                       !.post_ids = st.post_ids])
        /\ UNCHANGED nfail
     \/ /\ Raise(t, posts)
        /\ UNCHANGED edits
  /\ UNCHANGED <<Rest, Store, deleted, tasks>>

\* Lines 1799-1805: set_state under (user_id, state.get("root_post_id")).
SetOptionalAttach(t) ==
  /\ pc[t] = "set_optional_attach"
  /\ SetState(t, <<loc[t].key[1], loc[t].root>>,
       [step |-> "OPTIONAL_ATTACH", yougile_task_id |-> loc[t].task_id,
        task_url |-> loc[t].task_id, post_ids |-> loc[t].post_ids])
  /\ Done(t)
  /\ UNCHANGED <<Rest, posts, edits, deleted, tasks, nfail>>

\* ---------------------------------------------------------------- CANCEL, FINISH
\* The posts CANCEL deletes, lines 1620-1633.
CancelTargets(rec) == Range(rec.post_ids)

CancelLoad(h) ==
  /\ pc[h] = "cancel_load"
  /\ deleted' = deleted \cup CancelTargets(Store[loc[h].key])
  /\ Goto(h, "cancel_clear", loc[h])
  /\ UNCHANGED <<Rest, Store, posts, edits, tasks, nfail>>

\* clear_state, lines 180-183.
ClearStateRec(rec) == NoRecord

\* CANCEL, lines 1635-1648: clear_state, then the cancellation notice.
CancelClear(h) ==
  /\ pc[h] = "cancel_clear"
  /\ Store' = [Store EXCEPT ![loc[h].key] = ClearStateRec(@)]
  /\ items' = OrphanItems(items, loc[h].key)
  /\ \/ /\ posts' = Append(posts, Notice("cancel_notice", loc[h].key[2]))
        /\ GotoL(OrphanLoc(loc, loc[h].key), h, "idle", IdleLoc)
        /\ UNCHANGED nfail
     \/ RaiseL(OrphanLoc(loc, loc[h].key), h, posts)
  /\ Ended(loc[h].key)
  /\ UNCHANGED picked
  /\ UNCHANGED <<CHANNEL_PROJECT_MAP, cur, snow, now, chat, reacts,
                 nclick, nposted, nover, edits, deleted, tasks,
                 yougile, mm>>

\* MENU_CANCEL, lines 1254-1261: the menu is edited, then clear_state.
MenuCancel(h) ==
  /\ pc[h] = "menu_cancel"
  /\ \/ /\ edits' = edits \cup {<<loc[h].post_id, "menu_closed">>}
        /\ Store' = [Store EXCEPT ![loc[h].key] = ClearStateRec(@)]
        /\ items' = OrphanItems(items, loc[h].key)
        /\ GotoL(OrphanLoc(loc, loc[h].key), h, "idle", IdleLoc)
        /\ UNCHANGED <<posts, nfail>>
     \/ /\ Raise(h, posts)
        /\ UNCHANGED <<Store, items, edits>>
  /\ UNCHANGED <<CHANNEL_PROJECT_MAP, cur, snow, now, chat, reacts, nclick,
                 nposted, nover, yougile, mm, dialog, picked, deleted, tasks>>

\* For comparison: a summary that goes to the channel and not to the thread.
SummaryToChannelOnly(root) == <<Notice("summary_channel", None)>>

\* send_task_summary(..., to_channel=True, auto=False), lines 714-733.
FinishSummary(root) ==
  <<Notice("summary", root), Notice("summary_channel", None)>>

\* FINISH, lines 1651-1684: the summary in the thread and in the channel, the
\* edit of the clicked post.  A call may raise before the summary is in the
\* thread, or after it (the channel's copy, the edit).
FinishLoad(h) ==
  /\ pc[h] = "finish_load"
  /\ \/ /\ posts' = posts \o FinishSummary(loc[h].key[2])
        /\ edits' = edits \cup {<<loc[h].post_id, "finished">>}
        /\ Goto(h, "finish_clear", loc[h])
        /\ UNCHANGED nfail
     \/ /\ Raise(h, posts)
        /\ UNCHANGED edits
     \/ /\ Raise(h, Append(posts, Notice("summary", loc[h].key[2])))
        /\ UNCHANGED edits
  /\ UNCHANGED <<Rest, Store, deleted, tasks>>

\* FINISH, line 1686.
FinishClear(h) ==
  /\ pc[h] = "finish_clear"
  /\ Store' = [Store EXCEPT ![loc[h].key] = ClearStateRec(@)]
  /\ items' = OrphanItems(items, loc[h].key)
  /\ GotoL(OrphanLoc(loc, loc[h].key), h, "idle", IdleLoc)
  /\ Ended(loc[h].key)
  /\ UNCHANGED picked
  /\ UNCHANGED <<CHANNEL_PROJECT_MAP, cur, snow, now, chat, reacts,
                 nclick, nposted, nover, posts, edits, deleted, tasks, nfail,
                 yougile, mm>>

\* ---------------------------------------------------------------- run_ws_bot
\* A "posted" frame: lines 2007-2035 and the test for the bot's mention,
\* lines 2095-2101.  kind: "create" (the create command, text the title),
\* "mention" (the bot is mentioned without the command), "plain".
WsFirstLabel(kind) ==
  CASE kind = "create" -> "start_task_creation"
    [] kind = "mention" -> "ws_menu"
    [] kind = "plain" -> "ws_custom_date"

Posted(u, r, kind, text, files) ==
  /\ pc["ws"] = "idle"
  /\ nposted < MaxPosted
  /\ nposted' = nposted + 1
  /\ picked' = IF kind = "create" THEN [NoPick EXCEPT !.title = text]
                ELSE picked
  /\ Arrive
  /\ dialog' = IF kind = "create"
                THEN [dialog EXCEPT ![<<u, r>>].ended = FALSE]
                ELSE dialog
  /\ Goto("ws", WsFirstLabel(kind),
          [IdleLoc EXCEPT !.key = <<u, r>>, !.step = kind, !.text = text,
                          !.files = files,
                          !.task_title = IF kind = "create" THEN text ELSE None])
  /\ UNCHANGED <<Store, CHANNEL_PROJECT_MAP, items, cur, snow, now,
                 posts, edits, deleted, tasks, chat, reacts, nfail, yougile, mm,
                 nclick>>

\* The main menu, lines 2103-2111.
WsMenu ==
  /\ pc["ws"] = "ws_menu"
  /\ \/ /\ posts' = Append(posts,
             Post("menu", loc["ws"].key[1], loc["ws"].key[2], None, None,
                  None, {}))
        /\ Done("ws")
        /\ UNCHANGED nfail
     \/ Raise("ws", posts)
  /\ UNCHANGED <<Rest, Store, edits, deleted, tasks>>

\* The ids of the projects start_task_creation gets at line 1854.
AllowedIds ==
  LET res == get_allowed_projects_for_mm_user(mm.email, yougile.users,
                                              yougile.projects)
  IN  {res[i].id : i \in DOMAIN res}

\* start_task_creation applying the channel's default project whenever one
\* is set, whatever the actor's projects are.
StartTaskCreationAnyDefault ==
  /\ pc["ws"] = "start_task_creation"
  /\ LET allowed == AllowedIds IN
       IF allowed = {}
       THEN /\ posts' = Append(posts, Notice("no_access", loc["ws"].key[2]))
            /\ Done("ws")
       ELSE /\ posts' = posts
            /\ IF CHANNEL_PROJECT_MAP # None
               THEN Goto("ws", "start_default",
                         [loc["ws"] EXCEPT !.project_id = CHANNEL_PROJECT_MAP])
               ELSE Goto("ws", "start_replace",
                         [loc["ws"] EXCEPT !.allowed = allowed])
  /\ UNCHANGED <<Rest, Store, edits, deleted, tasks, nfail>>

\* start_task_creation, lines 1854-1879: the allowed projects, the channel's
\* default project.
StartTaskCreation ==
  /\ pc["ws"] = "start_task_creation"
  /\ LET allowed == AllowedIds IN
       IF allowed = {}
       THEN /\ posts' = Append(posts, Notice("no_access", loc["ws"].key[2]))
            /\ Done("ws")
       ELSE /\ posts' = posts
            /\ IF CHANNEL_PROJECT_MAP \in allowed
               THEN Goto("ws", "start_default",
                         [loc["ws"] EXCEPT !.project_id = CHANNEL_PROJECT_MAP])
               ELSE Goto("ws", "start_replace",
                         [loc["ws"] EXCEPT !.allowed = allowed])
  /\ UNCHANGED <<Rest, Store, edits, deleted, tasks, nfail>>

\* start_task_creation with the default project, lines 1879-1891.
StartDefault ==
  /\ pc["ws"] = "start_default"
  /\ SetState("ws", loc["ws"].key,
       [step |-> "CHOOSE_PROJECT", task_title |-> loc["ws"].task_title,
        root_post_id |-> loc["ws"].key[2], channel_id |-> Channel,
        project_id |-> loc["ws"].project_id, post_ids |-> <<>>])
  /\ Goto("ws", "yg_get_boards", [loc["ws"] EXCEPT !.live = TRUE])
  /\ Begun(loc["ws"].key, loc["ws"].step)
  /\ UNCHANGED <<CHANNEL_PROJECT_MAP, items, cur, snow, now, chat, reacts,
                 nclick, nposted, nover, yougile, mm, picked, posts, edits,
                 deleted, tasks, nfail>>

\* The dict start_task_creation stores directly, lines 1960-1968.
StartRecord(title, root) ==
  [BlankDict EXCEPT !.step = "CHOOSE_PROJECT", !.task_title = title,
                    !.root_post_id = root, !.channel_id = Channel]

StartReplace ==
  /\ pc["ws"] = "start_replace"
  /\ Store' = [Store EXCEPT ![loc["ws"].key] =
                 StartRecord(loc["ws"].task_title, loc["ws"].key[2])]
  /\ items' = OrphanItems(items, loc["ws"].key)
  /\ GotoL(OrphanLoc(loc, loc["ws"].key), "ws", "post_project_prompt", loc["ws"])
  /\ Begun(loc["ws"].key, loc["ws"].step)
  /\ UNCHANGED <<CHANNEL_PROJECT_MAP, cur, snow, now, chat, reacts,
                 nclick, nposted, nover, picked, posts, edits, deleted, tasks,
                 nfail, yougile, mm>>

\* The project prompt, lines 1970-1979.
PostProjectPrompt ==
  /\ pc["ws"] = "post_project_prompt"
  /\ \/ /\ posts' = Append(posts,
             Post("project_prompt", loc["ws"].key[1], loc["ws"].key[2],
                  loc["ws"].task_title, None, None, loc["ws"].allowed))
        /\ Goto("ws", "set_post_ids",
                [loc["ws"] EXCEPT !.post_ids = <<Len(posts) + 1>>])
        /\ UNCHANGED nfail
     \/ Raise("ws", posts)
  /\ UNCHANGED <<Rest, Store, edits, deleted, tasks>>

\* The wait for a custom date, lines 2114-2129.
WaitsForDate(st) ==
  st.exists /\ st.step = "CHOOSE_DEADLINE" /\ st.deadline_choice = "custom"

WsCustomDate ==
  /\ pc["ws"] = "ws_custom_date"
  /\ LET st == Store[loc["ws"].key] IN
     IF WaitsForDate(st) /\ loc["ws"].text # ""
     THEN IF ParseDate(loc["ws"].text) = NoDate
          THEN \/ /\ posts' = Append(posts,
                                     Notice("date_retry", loc["ws"].key[2]))
                  /\ Done("ws")
                  /\ UNCHANGED nfail
               \/ Raise("ws", posts)
          ELSE /\ Goto("ws", "ws_set_deadline",
                       [loc["ws"] EXCEPT !.date = ParseDate(loc["ws"].text)])
               /\ UNCHANGED <<posts, nfail>>
     ELSE /\ Goto("ws", "ws_ask_title", loc["ws"])
          /\ UNCHANGED <<posts, nfail>>
  /\ UNCHANGED <<Rest, Store, edits, deleted, tasks>>

\* post_ids[-1] if post_ids else None, lines 2137-2138.
TargetPost(post_ids) ==
  IF post_ids = <<>> THEN NoId ELSE post_ids[Len(post_ids)]

\* Lines 2131-2148: the date is stored; the task is created when the record
\* lists a post, else only a message is posted.
WsSetDeadline ==
  /\ pc["ws"] = "ws_set_deadline"
  /\ SetState("ws", loc["ws"].key, [deadline |-> loc["ws"].date])
  /\ LET st == SetStateRec(Store[loc["ws"].key],
                           [deadline |-> loc["ws"].date], now)
         title == IF st.task_title = Missing THEN Untitled ELSE st.task_title
     IN  IF TargetPost(st.post_ids) # NoId
         THEN /\ Goto("ws", "create_task",
                      [loc["ws"] EXCEPT !.live = TRUE, !.task_title = title,
                                        !.post_id = TargetPost(st.post_ids)])
              /\ UNCHANGED <<posts, nfail>>
         ELSE \/ /\ posts' = Append(posts,
                                    Notice("created_message", loc["ws"].key[2]))
                 /\ Done("ws")
                 /\ UNCHANGED nfail
              \/ Raise("ws", posts)
  /\ UNCHANGED <<Rest, edits, deleted, tasks>>

\* The wait for the title, lines 2151-2155.
WsAskTitle ==
  /\ pc["ws"] = "ws_ask_title"
  /\ LET st == Store[loc["ws"].key] IN
     IF st.exists /\ st.step = "ASK_TASK_TITLE"
     THEN IF loc["ws"].text = "" THEN Done("ws")
          ELSE Goto("ws", "ws_set_title", loc["ws"])
     ELSE Goto("ws", "ws_relay", loc["ws"])
  /\ UNCHANGED <<Rest, Store, posts, edits, deleted, tasks, nfail>>

\* Lines 2157-2173: the title is stored, the title prompt edited (a failure
\* of the edit is swallowed), start_task_creation called.
WsSetTitle ==
  /\ pc["ws"] = "ws_set_title"
  /\ SetState("ws", loc["ws"].key, [task_title |-> loc["ws"].text])
  /\ edits' = IF Store[loc["ws"].key].ask_title_post_id # NoId
              THEN edits \cup {<<Store[loc["ws"].key].ask_title_post_id,
                                 "creating">>}
              ELSE edits
  /\ Goto("ws", "start_task_creation",
          [loc["ws"] EXCEPT !.task_title = loc["ws"].text])
  /\ UNCHANGED <<Rest, posts, deleted, tasks, nfail>>

\* What a relay sends to the chat of task id: a message per file, lines
\* 2198-2212, then the text when there is one, lines 2214-2222.
Forwards(id, l) ==
  [i \in 1..l.files |-> <<id, "file">>]
    \o (IF l.text # "" THEN <<<<id, "text">>>> ELSE <<>>)

\* The relay of a comment or file, lines 2176-2232.  Every failure in it is
\* swallowed; sent is sent_anything.
WsRelay ==
  /\ pc["ws"] = "ws_relay"
  /\ LET st == Store[loc["ws"].key] IN
     IF st.exists /\ st.step = "OPTIONAL_ATTACH" /\ st.yougile_task_id # NoId
     THEN \/ /\ chat' = chat \o Forwards(st.yougile_task_id, loc["ws"])
             /\ \/ reacts' = reacts + 1 /\ UNCHANGED nfail
                \/ /\ nover + nfail < MaxDisorder   \* mm_add_reaction raises
                   /\ nfail' = nfail + 1
                   /\ UNCHANGED reacts
             /\ Goto("ws", "ws_touch", loc["ws"])
          \/ /\ nover + nfail < MaxDisorder         \* no forward succeeds
             /\ nfail' = nfail + 1
             /\ Done("ws")
             /\ UNCHANGED <<chat, reacts>>
     ELSE /\ Done("ws")
          /\ UNCHANGED <<chat, reacts, nfail>>
  /\ UNCHANGED <<CHANNEL_PROJECT_MAP, items, cur, snow, now, nclick, nposted,
                 nover, dialog, picked, Store, posts, edits, deleted, tasks,
                 yougile, mm>>

\* set_state(user_id, root_id, {}), line 2234.
WsTouch ==
  /\ pc["ws"] = "ws_touch"
  /\ SetState("ws", loc["ws"].key, EmptyData)
  /\ Done("ws")
  /\ UNCHANGED <<Rest, posts, edits, deleted, tasks, nfail>>

\* Lines 2236-2241 and 1991-2005: sleep, connect, authenticate.
WsReconnect ==
  /\ pc["ws"] = "ws_reconnect"
  /\ Done("ws")
  /\ UNCHANGED <<Rest, Store, posts, edits, deleted, tasks, nfail>>

\* ---------------------------------------------------------------- sweeper
\* Lines 2264-2269: the test the sweeper makes on an item of its snapshot.
Eligible(st, t) ==
  /\ st.step = "OPTIONAL_ATTACH"
  /\ st.updated_at # NoTime \/ st.created_at # NoTime
  /\ t - (IF st.updated_at # NoTime THEN st.updated_at ELSE st.created_at)
       > AUTO_FINISH_TIMEOUT_MINUTES

\* auto_cleanup_loop, lines 2260-2262: the snapshot of STATE.  A pass with
\* nothing due in its snapshot is left out: it changes nothing, for no item
\* becomes due during a pass (its now is read once, and a dict's updated_at
\* only grows).
SweepStart ==
  /\ pc["sweeper"] = "idle"
  /\ \E k \in Keys : Store[k].exists /\ Eligible(Store[k], now)
  /\ Arrive
  /\ snow' = now
  /\ items' = [k \in Keys |->
                 IF Store[k].exists
                 THEN [pending |-> TRUE, live |-> TRUE, state |-> NoRecord]
                 ELSE NoItem]
  /\ pc' = [pc EXCEPT !["sweeper"] = "scan"]
  /\ UNCHANGED <<Store, CHANNEL_PROJECT_MAP, loc, cur, now, posts,
                 edits, deleted, tasks, chat, reacts, nclick, nposted, nfail,
                 yougile, mm, dialog, picked>>

SweepItem(k) ==
  /\ pc["sweeper"] = "scan"
  /\ items[k].pending
  /\ items' = [items EXCEPT ![k] = NoItem]
  /\ LET st == IF items[k].live THEN Store[k] ELSE items[k].state IN
     IF Eligible(st, snow)
     THEN /\ pc' = [pc EXCEPT !["sweeper"] = "auto_finish"]
          /\ cur' = k
     ELSE UNCHANGED <<pc, cur>>
  /\ UNCHANGED <<Store, CHANNEL_PROJECT_MAP, loc, snow, now, posts,
                 edits, deleted, tasks, chat, reacts, nclick, nposted, nfail, nover,
                 yougile, mm, dialog, picked>>

\* time.sleep(60), line 2277.
SweepSleep ==
  /\ pc["sweeper"] = "scan"
  /\ \A k \in Keys : ~items[k].pending
  /\ pc' = [pc EXCEPT !["sweeper"] = "idle"]
  /\ snow' = 0
  /\ UNCHANGED <<Store, CHANNEL_PROJECT_MAP, loc, items, cur, now,
                 posts, edits, deleted, tasks, chat, reacts, nclick, nposted,
                 nfail, nover, yougile, mm, dialog, picked>>

\* For comparison: an exception that ends the pass.
CaughtOutsideLoop == "idle"

\* Lines 2271-2274: the except inside the for loop; the pass goes on with
\* the next item.
CaughtInLoop == "scan"

\* For comparison: an automatic summary that is copied to the channel too.
AutoSummaryAlsoToChannel(root) ==
  <<Notice("summary", root), Notice("summary_channel", None),
    Notice("auto_marker", root)>>

\* send_task_summary(..., to_channel=False, auto=True), lines 714-741.
AutoSummary(root) == <<Notice("summary", root), Notice("auto_marker", root)>>

\* auto_finish_dialog, lines 1812-1843; an exception is caught by the loop
\* (line 2273).  A call may raise before the summary is in the thread, or
\* after it (the marker).
AutoFinish ==
  /\ pc["sweeper"] = "auto_finish"
  /\ LET st == Store[cur] IN
     IF ~st.exists \/ st.channel_id = None
     THEN /\ pc' = [pc EXCEPT !["sweeper"] = "scan"]
          /\ cur' = NoKey
          /\ UNCHANGED <<posts, nfail>>
     ELSE \/ /\ posts' = posts \o AutoSummary(cur[2])
             /\ pc' = [pc EXCEPT !["sweeper"] = "auto_clear"]
             /\ UNCHANGED <<cur, nfail>>
          \/ /\ nover + nfail < MaxDisorder
             /\ nfail' = nfail + 1
             /\ pc' = [pc EXCEPT !["sweeper"] = CaughtInLoop]
             /\ cur' = NoKey
             /\ \/ posts' = posts
                \/ posts' = Append(posts, Notice("summary", cur[2]))
  /\ UNCHANGED <<Store, CHANNEL_PROJECT_MAP, loc, items, snow, now,
                 edits, deleted, tasks, chat, reacts, nclick, nposted, nover, dialog, picked,
                 yougile, mm>>

\* auto_finish_dialog, line 1845.
AutoClear ==
  /\ pc["sweeper"] = "auto_clear"
  /\ Store' = [Store EXCEPT ![cur] = ClearStateRec(@)]
  /\ items' = OrphanItems(items, cur)
  /\ loc' = OrphanLoc(loc, cur)
  /\ pc' = [pc EXCEPT !["sweeper"] = "scan"]
  /\ cur' = NoKey
  /\ Ended(cur)
  /\ UNCHANGED picked
  /\ UNCHANGED <<CHANNEL_PROJECT_MAP, snow, now, posts, edits,
                 deleted, tasks, chat, reacts, nclick, nposted, nfail, nover,
                 yougile, mm>>

\* ---------------------------------------------------------------- specification
Next ==
  \/ Tick
  \/ \E h \in Handlers : \E p \in DOMAIN posts : \E b \in Buttons(p) :
       Click(h, p, b[1], b[2])
  \/ \E h \in Handlers : ActLoad(h)
  \/ \E h \in Handlers : MenuCreateTask(h)
  \/ \E h \in Handlers : ProjectSet(h)
  \/ \E t \in Workers : FetchBoards(t)
  \/ \E t \in Workers : AutoBoard(t)
  \/ \E t \in Workers : FetchColumns(t)
  \/ \E t \in Workers : SetColumnOptions(t)
  \/ \E t \in Workers : PostColumnPrompt(t)
  \/ \E t \in Workers : SetPostIds(t)
  \/ \E t \in Workers : SetBoardOptions(t)
  \/ \E t \in Workers : PostBoardPrompt(t)
  \/ \E h \in Handlers : BoardLoad(h)
  \/ \E h \in Handlers : BoardSet(h)
  \/ \E h \in Handlers : ColumnLoad(h)
  \/ \E h \in Handlers : ColumnSet(h)
  \/ \E h \in Handlers : PostAssigneePrompt(h)
  \/ \E h \in Handlers : AssigneeSet(h)
  \/ \E h \in Handlers : AssigneeName(h)
  \/ \E h \in Handlers : PostDeadlinePrompt(h)
  \/ \E h \in Handlers : DeadlineSet(h)
  \/ \E h \in Handlers : DeadlineDate(h)
  \/ \E t \in Workers : CreateTask(t)
  \/ \E t \in Workers : UpdatePost(t)
  \/ \E t \in Workers : SetOptionalAttach(t)
  \/ \E h \in Handlers : MenuCancel(h)
  \/ \E h \in Handlers : CancelLoad(h)
  \/ \E h \in Handlers : CancelClear(h)
  \/ \E h \in Handlers : FinishLoad(h)
  \/ \E h \in Handlers : FinishClear(h)
  \/ \E u \in Users : \E r \in Roots : \E title \in Titles :
       Posted(u, r, "create", title, 0)
  \/ \E u \in Users : \E r \in Roots : Posted(u, r, "mention", "", 0)
  \/ \E u \in Users : \E r \in Roots : \E m \in Messages :
       Posted(u, r, "plain", m[1], m[2])
  \/ WsMenu
  \/ StartTaskCreation
  \/ StartDefault
  \/ StartReplace
  \/ PostProjectPrompt
  \/ WsCustomDate
  \/ WsSetDeadline
  \/ WsAskTitle
  \/ WsSetTitle
  \/ WsRelay
  \/ WsTouch
  \/ WsReconnect
  \/ SweepStart
  \/ \E k \in Keys : SweepItem(k)
  \/ SweepSleep
  \/ AutoFinish
  \/ AutoClear

Spec == Init /\ [][Next]_vars

\* ---------------------------------------------------------------- the deadline step alone
\* The deadline callback with each of the prompt's seven buttons, for a dialog
\* that awaits its deadline: the dialog began on day "began", the prompt is
\* clicked on day "today" or later.
MaxDay == 2

\* build_deadline_buttons: the values of the seven buttons.
DeadlineButtons ==
  {"none", "today", "tomorrow", "day_after_tomorrow", "week", "month", "custom"}

DeadlineKey == <<"U1", "T1">>

\* The record CHOOSE_ASSIGNEE leaves, lines 1538-1586, and its deadline prompt.
AwaitsDeadline(began, today) ==
  [BlankDict EXCEPT !.step = "CHOOSE_ASSIGNEE", !.task_title = "Buy license",
                    !.project_id = "P1", !.board_id = "B1",
                    !.column_id = "C1", !.assignee_id = "A1",
                    !.channel_id = Channel, !.root_post_id = "T1",
                    !.post_ids = <<1>>,
                    !.created_at = began * Leap, !.updated_at = today * Leap]

DeadlinePrompt ==
  Post("deadline_prompt", "U1", "T1", "Buy license", None, None,
       DeadlineButtons)

InitDeadline ==
  /\ \E today \in 0..MaxDay : \E began \in 0..today :
       /\ now = today * Leap
       /\ Store = [k \in Keys |->
                    IF k = DeadlineKey THEN AwaitsDeadline(began, today)
                    ELSE NoRecord]
  /\ CHANNEL_PROJECT_MAP = None
  /\ pc = [t \in Workers \cup {"sweeper"} |-> "idle"]
  /\ loc = [t \in Workers |-> IdleLoc]
  /\ items = [k \in Keys |-> NoItem]
  /\ cur = NoKey
  /\ snow = 0
  /\ posts = <<DeadlinePrompt>>
  /\ edits = {}
  /\ deleted = {}
  /\ tasks = <<>>
  /\ chat = <<>>
  /\ reacts = 0
  /\ nposted = 0
  /\ nclick = 0
  /\ picked = NoPick
  /\ nfail = 0
  /\ nover = 0
  /\ yougile = OneOfEach
  /\ mm = Connected
  /\ dialog = [k \in Keys |-> [ended |-> FALSE, since |-> 0, menu |-> NoId]]

\* A CHOOSE_DEADLINE callback for post p whose context has no
\* deadline_choice: context.get("deadline_choice") is None, line 1591.
ClickWithoutChoice(h, p) ==
  /\ pc[h] = "idle"
  /\ h = FreeHandler
  /\ nclick < MaxClicks
  /\ Arrive
  /\ posts[p].kind = "deadline_prompt"
  /\ nclick' = nclick + 1
  /\ picked' = Pick("CHOOSE_DEADLINE", None)
  /\ Goto(h, "mm_actions",
          [IdleLoc EXCEPT !.key = <<posts[p].user, posts[p].root>>,
                          !.step = "CHOOSE_DEADLINE", !.value = None,
                          !.ctx_title = ContextTitle(p, "CHOOSE_DEADLINE"),
                          !.post_id = p])
  /\ UNCHANGED <<Store, CHANNEL_PROJECT_MAP, items, cur, snow, now,
                 posts, edits, deleted, tasks, chat, reacts, nfail, yougile, mm,
                 nposted, dialog>>

NextDeadline ==
  \/ Tick
  \/ \E h \in Handlers : \E p \in DOMAIN posts : \E v \in DeadlineButtons :
       Click(h, p, "CHOOSE_DEADLINE", v)
  \/ \E h \in Handlers : \E p \in DOMAIN posts : ClickWithoutChoice(h, p)
  \/ \E h \in Handlers : ActLoad(h)
  \/ \E h \in Handlers : DeadlineSet(h)
  \/ \E h \in Handlers : DeadlineDate(h)
  \/ \E t \in Workers : CreateTask(t)
  \/ \E t \in Workers : UpdatePost(t)
  \/ \E t \in Workers : SetOptionalAttach(t)

SpecDeadline == InitDeadline /\ [][NextDeadline]_vars

\* ---------------------------------------------------------------- set_state alone
\* Two handlers call set_state for one key: each call reads the clock (line
\* 165) and then, under the lock, updates the dict (lines 166-171).
MaxClock == 3

SetStateSteps == {"CHOOSE_PROJECT", "CHOOSE_BOARD"}

\* now = time.time(), line 165.
ReadClock(t, step) ==
  /\ pc[t] = "idle"
  /\ Goto(t, "set_state_lock",
          [IdleLoc EXCEPT !.key = DeadlineKey, !.step = step, !.clock = now])
  /\ UNCHANGED <<Rest, Store, posts, edits, deleted, tasks, nfail>>

\* with STATE_LOCK: ..., lines 166-171.
LockedUpdate(t) ==
  /\ pc[t] = "set_state_lock"
  /\ Store' = [Store EXCEPT ![loc[t].key] =
                 SetStateRec(@, [step |-> loc[t].step], loc[t].clock)]
  /\ Done(t)
  /\ UNCHANGED <<Rest, posts, edits, deleted, tasks, nfail>>

\* time.time() grows between any two steps.
ClockAdvance ==
  /\ now < MaxClock
  /\ now' = now + 1
  /\ UNCHANGED <<Store, CHANNEL_PROJECT_MAP, pc, loc, items, cur, snow,
                 posts, edits, deleted, tasks, chat, reacts, nclick, nposted,
                 nfail, nover, yougile, mm, dialog, picked>>

InitSetState ==
  /\ Store = [k \in Keys |-> NoRecord]
  /\ CHANNEL_PROJECT_MAP = None
  /\ pc = [t \in Workers \cup {"sweeper"} |-> "idle"]
  /\ loc = [t \in Workers |-> IdleLoc]
  /\ items = [k \in Keys |-> NoItem]
  /\ cur = NoKey
  /\ snow = 0
  /\ now = 0
  /\ posts = <<>>
  /\ edits = {}
  /\ deleted = {}
  /\ tasks = <<>>
  /\ chat = <<>>
  /\ reacts = 0
  /\ nposted = 0
  /\ nclick = 0
  /\ picked = NoPick
  /\ nfail = 0
  /\ nover = 0
  /\ yougile = OneOfEach
  /\ mm = Connected
  /\ dialog = [k \in Keys |-> [ended |-> FALSE, since |-> 0, menu |-> NoId]]

NextSetState ==
  \/ ClockAdvance
  \/ \E h \in Handlers : \E step \in SetStateSteps : ReadClock(h, step)
  \/ \E h \in Handlers : LockedUpdate(h)

SpecSetState == InitSetState /\ [][NextSetState]_vars

\* ---------------------------------------------------------------- the sweeper alone
\* The sweeper with up to two records in the wait after creation: the record
\* of a dialog of thread T1 and the record create_task_and_update_post has
\* left under (U1, None), each last written at time "at"; the posts and the
\* tasks of the dialogs they come from are not kept.
Finished(at) ==
  [BlankDict EXCEPT !.step = "OPTIONAL_ATTACH", !.task_title = "Buy license",
                    !.project_id = "P1", !.board_id = "B1",
                    !.column_id = "C1", !.assignee_id = "A1",
                    !.deadline_choice = "none",
                    !.channel_id = Channel, !.root_post_id = "T1",
                    !.post_ids = <<1, 2, 3, 4>>,
                    !.yougile_task_id = 1, !.task_url = 1,
                    !.created_at = 0, !.updated_at = at]

Stray(at) ==
  [BlankDict EXCEPT !.step = "OPTIONAL_ATTACH", !.post_ids = <<1, 2>>,
                    !.yougile_task_id = 2, !.task_url = 2,
                    !.created_at = at, !.updated_at = at]

StrayKey == <<"U1", None>>

InitSweeper ==
  /\ now \in {0, Leap}
  /\ \E r1 \in {NoRecord} \cup {Finished(at) : at \in 0..now} :
     \E r2 \in {NoRecord} \cup {Stray(at) : at \in 0..now} :
       Store = [k \in Keys |->
                  IF k = DeadlineKey THEN r1
                  ELSE IF k = StrayKey THEN r2 ELSE NoRecord]
  /\ CHANNEL_PROJECT_MAP \in {None, "P1"}
  /\ pc = [t \in Workers \cup {"sweeper"} |-> "idle"]
  /\ loc = [t \in Workers |-> IdleLoc]
  /\ items = [k \in Keys |-> NoItem]
  /\ cur = NoKey
  /\ snow = 0
  /\ posts = <<>>
  /\ edits = {}
  /\ deleted = {}
  /\ tasks = <<>>
  /\ chat = <<>>
  /\ reacts = 0
  /\ nposted = 0
  /\ nclick = 0
  /\ picked = NoPick
  /\ nfail = 0
  /\ nover = 0
  /\ yougile = OneOfEach
  /\ mm = Connected
  /\ dialog = [k \in Keys |-> [ended |-> FALSE, since |-> 0, menu |-> NoId]]

NextSweeper ==
  \/ Tick
  \/ SweepStart
  \/ \E k \in Keys : SweepItem(k)
  \/ SweepSleep
  \/ AutoFinish
  \/ AutoClear

SpecSweeper == InitSweeper /\ [][NextSweeper]_vars

\* ---------------------------------------------------------------- the websocket loop alone
\* run_ws_bot's loops, lines 1990-2028 and 2236-2241, with a platform that
\* accepts or refuses connections and the frames that are not handled as a
\* posted message.  pc["ws"] = "idle" is the thread inside ws.recv().
MaxConn == 3
MaxFrames == 3

\* For comparison: a client that gives up after a failure.
Stopped == "ws_stopped"

\* while True, line 1990: after the sleep the loop connects again.
Retry == "ws_connect"

\* The frames the loop does not handle as a posted message: an empty frame
\* (2007-2008), text that is not JSON (2010-2014), an event other than
\* "posted" (2021-2022), a posted event without post (2024-2026, 333-335),
\* a posted event whose post is not JSON (336).
DroppedFrames == {"empty", "bad_json", "other_event", "no_post", "bad_post"}

\* What json.loads(post_raw) makes of the frame, line 336: an exception
\* leaves the receive loop for the except of 2239-2241.
AfterFrame(kind) == IF kind = "bad_post" THEN "ws_reconnect" ELSE "idle"

WsVars == <<Store, CHANNEL_PROJECT_MAP, loc, items, cur, snow, now, posts,
            edits, deleted, tasks, chat, reacts, nposted, nclick, picked,
            nfail, nover, yougile, dialog>>

\* The platform starts or stops accepting connections.
MmSwitch ==
  /\ mm' = [mm EXCEPT !.accepts = ~mm.accepts]
  /\ UNCHANGED <<pc, WsVars>>

\* create_connection, line 1993.
WsConnect ==
  /\ pc["ws"] = "ws_connect"
  /\ IF mm.accepts
     THEN /\ pc' = [pc EXCEPT !["ws"] = "ws_auth"]
          /\ mm' = [mm EXCEPT !.conn = (mm.conn % MaxConn) + 1, !.frames = 0]
     ELSE /\ pc' = [pc EXCEPT !["ws"] = "ws_reconnect"]
          /\ mm' = mm
  /\ UNCHANGED WsVars

\* ws.send(authentication_challenge), lines 1995-2003.
WsAuth ==
  /\ pc["ws"] = "ws_auth"
  /\ pc' = [pc EXCEPT !["ws"] = IF mm.accepts THEN "idle" ELSE "ws_reconnect"]
  /\ UNCHANGED <<mm, WsVars>>

\* ws.recv() returns a frame of one of the kinds above.
WsFrame(kind) ==
  /\ pc["ws"] = "idle"
  /\ mm.frames < MaxFrames
  /\ mm' = [mm EXCEPT !.frames = mm.frames + 1]
  /\ pc' = [pc EXCEPT !["ws"] = AfterFrame(kind)]
  /\ UNCHANGED WsVars

\* ws.recv() raises: the connection was closed or broke, lines 2236-2241.
WsClosed ==
  /\ pc["ws"] = "idle"
  /\ pc' = [pc EXCEPT !["ws"] = "ws_reconnect"]
  /\ UNCHANGED <<mm, WsVars>>

\* time.sleep(3) or time.sleep(5), lines 2238 and 2241.
WsSleep ==
  /\ pc["ws"] = "ws_reconnect"
  /\ pc' = [pc EXCEPT !["ws"] = Retry]
  /\ UNCHANGED <<mm, WsVars>>

\* The thread has started and is about to connect for the first time.
InitWs ==
  /\ mm \in [accepts : BOOLEAN, conn : {0}, frames : {0},
             email : {ActorEmail}]
  /\ pc = [t \in Workers \cup {"sweeper"} |->
             IF t = "ws" THEN "ws_connect" ELSE "idle"]
  /\ Store = [k \in Keys |-> NoRecord]
  /\ CHANNEL_PROJECT_MAP \in {None, "P1"}
  /\ loc = [t \in Workers |-> IdleLoc]
  /\ items = [k \in Keys |-> NoItem]
  /\ cur = NoKey
  /\ snow = 0
  /\ now = 0
  /\ posts = <<>>
  /\ edits = {}
  /\ deleted = {}
  /\ tasks = <<>>
  /\ chat = <<>>
  /\ reacts = 0
  /\ nposted = 0
  /\ nclick = 0
  /\ picked = NoPick
  /\ nfail = 0
  /\ nover = 0
  /\ yougile = OneOfEach
  /\ dialog = [k \in Keys |-> [ended |-> FALSE, since |-> 0, menu |-> NoId]]

NextWs ==
  \/ MmSwitch
  \/ WsConnect
  \/ WsAuth
  \/ \E kind \in DroppedFrames : WsFrame(kind)
  \/ WsClosed
  \/ WsSleep

\* The thread runs: a sleep ends, a connection attempt and the handshake
\* return or raise.
SpecWs ==
  /\ InitWs /\ [][NextWs]_vars
  /\ WF_vars(WsSleep) /\ WF_vars(WsConnect) /\ WF_vars(WsAuth)

\* ---------------------------------------------------------------- the create command alone
\* A create command in a channel without default project, for every profile
\* email, roster and project list below.
ProfileEmails == {" Ann@X.io ", "bob@x.io", "  ", Fails}

Rosters ==
  {Failed, Fetched(<<[id |-> "Y1", email |-> "ann@x.io"]>>)}
    \cup {Fetched(<<[id |-> "Y1", email |-> e1],
                    [id |-> "Y2", email |-> e2]>>) :
            e1 \in {"ann@x.io", " Ann@X.io ", "  "},
            e2 \in {"Bob@x.io", "ann@x.io"}}

AllProjectLists ==
  {Failed, Fetched(<<>>)}
    \cup {Fetched(<<[id |-> "P1", deleted |-> d1, users |-> u1],
                    [id |-> "P2", deleted |-> d2, users |-> u2]>>) :
            d1 \in BOOLEAN, u1 \in SUBSET {"Y1", "Y2"},
            d2 \in BOOLEAN, u2 \in {{}, {"Y1"}, {"Y3"}}}

InitAllowed ==
  /\ mm \in [accepts : {TRUE}, conn : {1}, frames : {0},
             email : ProfileEmails]
  /\ yougile \in [users : Rosters, projects : AllProjectLists,
                  boards : {<<"B1">>}, columns : {<<"C1">>}]
  /\ CHANNEL_PROJECT_MAP = None
  /\ Store = [k \in Keys |-> NoRecord]
  /\ pc = [t \in Workers \cup {"sweeper"} |-> "idle"]
  /\ loc = [t \in Workers |-> IdleLoc]
  /\ items = [k \in Keys |-> NoItem]
  /\ cur = NoKey
  /\ snow = 0
  /\ now = 0
  /\ posts = <<>>
  /\ edits = {}
  /\ deleted = {}
  /\ tasks = <<>>
  /\ chat = <<>>
  /\ reacts = 0
  /\ nposted = 0
  /\ nclick = 0
  /\ picked = NoPick
  /\ nfail = 0
  /\ nover = 0
  /\ dialog = [k \in Keys |-> [ended |-> FALSE, since |-> 0, menu |-> NoId]]

NextAllowed ==
  \/ \E u \in Users : \E r \in Roots : \E title \in Titles :
       Posted(u, r, "create", title, 0)
  \/ StartTaskCreation
  \/ StartReplace
  \/ PostProjectPrompt
  \/ \E t \in Workers : SetPostIds(t)
  \/ WsReconnect

SpecAllowed == InitAllowed /\ [][NextAllowed]_vars

\* ---------------------------------------------------------------- the create command and the default project
\* A create command in a channel whose default project is unset, P1 or P2,
\* for the rosters and project lists above.
DefaultProjects == {None, "P1", "P2"}

InitDefault ==
  /\ mm \in [accepts : {TRUE}, conn : {1}, frames : {0},
             email : {" Ann@X.io ", "bob@x.io"}]
  /\ yougile \in [users : Rosters, projects : AllProjectLists,
                  boards : {<<"B1">>}, columns : {<<"C1">>}]
  /\ CHANNEL_PROJECT_MAP \in DefaultProjects
  /\ Store = [k \in Keys |-> NoRecord]
  /\ pc = [t \in Workers \cup {"sweeper"} |-> "idle"]
  /\ loc = [t \in Workers |-> IdleLoc]
  /\ items = [k \in Keys |-> NoItem]
  /\ cur = NoKey
  /\ snow = 0
  /\ now = 0
  /\ posts = <<>>
  /\ edits = {}
  /\ deleted = {}
  /\ tasks = <<>>
  /\ chat = <<>>
  /\ reacts = 0
  /\ nposted = 0
  /\ nclick = 0
  /\ picked = NoPick
  /\ nfail = 0
  /\ nover = 0
  /\ dialog = [k \in Keys |-> [ended |-> FALSE, since |-> 0, menu |-> NoId]]

NextDefault ==
  \/ \E title \in Titles : Posted("U1", "T1", "create", title, 0)
  \/ StartTaskCreation
  \/ StartDefault
  \/ StartReplace
  \/ PostProjectPrompt
  \/ FetchBoards("ws")
  \/ AutoBoard("ws")
  \/ FetchColumns("ws")
  \/ SetColumnOptions("ws")
  \/ PostColumnPrompt("ws")
  \/ SetPostIds("ws")
  \/ WsReconnect

SpecDefault == InitDefault /\ [][NextDefault]_vars

\* ---------------------------------------------------------------- two dialogs in one thread
\* The callbacks of a thread in which the actor wrote the create command
\* twice, with two titles: the first dialog was left at its project prompt
\* (post 1, which keeps its select), the second one replaced the record
\* (lines 1960-1968) and posted its own project prompt (post 2, recorded at
\* line 1977).
EarlierTitle == "Pay rent"

SelectSteps ==
  {"CHOOSE_PROJECT", "CHOOSE_BOARD", "CHOOSE_COLUMN", "CHOOSE_ASSIGNEE",
   "CHOOSE_DEADLINE"}

SecondDialog ==
  [StartRecord("Buy license", "T1") EXCEPT !.post_ids = <<2>>,
                                            !.created_at = 0,
                                            !.updated_at = 0]

InitTitle ==
  /\ Store = [k \in Keys |->
               IF k = DeadlineKey THEN SecondDialog ELSE NoRecord]
  /\ CHANNEL_PROJECT_MAP = None
  /\ pc = [t \in Workers \cup {"sweeper"} |-> "idle"]
  /\ loc = [t \in Workers |-> IdleLoc]
  /\ items = [k \in Keys |-> NoItem]
  /\ cur = NoKey
  /\ snow = 0
  /\ now = 0
  /\ posts = <<Post("project_prompt", "U1", "T1", EarlierTitle, None, None,
                    {"P1"}),
               Post("project_prompt", "U1", "T1", "Buy license", None, None,
                    {"P1"})>>
  /\ edits = {}
  /\ deleted = {}
  /\ tasks = <<>>
  /\ chat = <<>>
  /\ reacts = 0
  /\ nposted = MaxPosted
  /\ nclick = 0
  /\ picked = [NoPick EXCEPT !.title = "Buy license"]
  /\ nfail = 0
  /\ nover = 0
  /\ yougile = OneOfEach
  /\ mm = Connected
  /\ dialog = [k \in Keys |-> [ended |-> FALSE, since |-> 1, menu |-> NoId]]

NextTitle ==
  \/ \E h \in Handlers : \E p \in DOMAIN posts : \E b \in Buttons(p) :
       b[1] \in SelectSteps /\ Click(h, p, b[1], b[2])
  \/ \E h \in Handlers : ActLoad(h)
  \/ \E h \in Handlers : ProjectSet(h)
  \/ \E t \in Handlers : FetchBoards(t)
  \/ \E t \in Handlers : AutoBoard(t)
  \/ \E t \in Handlers : FetchColumns(t)
  \/ \E t \in Handlers : SetColumnOptions(t)
  \/ \E t \in Handlers : PostColumnPrompt(t)
  \/ \E t \in Handlers : SetPostIds(t)
  \/ \E h \in Handlers : ColumnLoad(h)
  \/ \E h \in Handlers : ColumnSet(h)
  \/ \E h \in Handlers : PostAssigneePrompt(h)
  \/ \E h \in Handlers : AssigneeSet(h)
  \/ \E h \in Handlers : AssigneeName(h)
  \/ \E h \in Handlers : PostDeadlinePrompt(h)
  \/ \E h \in Handlers : DeadlineSet(h)
  \/ \E h \in Handlers : DeadlineDate(h)
  \/ \E t \in Handlers : CreateTask(t)
  \/ \E t \in Handlers : UpdatePost(t)
  \/ \E t \in Handlers : SetOptionalAttach(t)

SpecTitle == InitTitle /\ [][NextTitle]_vars

\* ---------------------------------------------------------------- after a failed create-task call
\* The deadline callbacks of a dialog whose create-task call has failed:
\* CHOOSE_DEADLINE stored the choice and the date (lines 1590-1615),
\* yg_create_task raised, and the handler's except posted the error in the
\* thread (lines 1689-1694).  The deadline prompt was not edited, so it keeps
\* its buttons; the record was not touched after the failure.
CreateFailed(choice, today) ==
  [AwaitsDeadline(0, today) EXCEPT !.step = "CHOOSE_DEADLINE",
                                   !.deadline_choice = choice,
                                   !.deadline = DeadlineOf(choice, today)]

InitRetry ==
  /\ \E today \in 0..MaxDay : \E choice \in DeadlineButtons \ {"custom"} :
       /\ now = today * Leap
       /\ Store = [k \in Keys |->
                    IF k = DeadlineKey THEN CreateFailed(choice, today)
                    ELSE NoRecord]
       /\ picked = [NoPick EXCEPT !.title = "Buy license", !.column = "C1",
                                  !.assignee = "A1", !.choice = choice,
                                  !.day = today]
  /\ CHANNEL_PROJECT_MAP = None
  /\ pc = [t \in Workers \cup {"sweeper"} |-> "idle"]
  /\ loc = [t \in Workers |-> IdleLoc]
  /\ items = [k \in Keys |-> NoItem]
  /\ cur = NoKey
  /\ snow = 0
  /\ posts = <<DeadlinePrompt, Notice("error", "T1")>>
  /\ edits = {}
  /\ deleted = {}
  /\ tasks = <<>>
  /\ chat = <<>>
  /\ reacts = 0
  /\ nposted = 0
  /\ nclick = 1
  /\ nfail = 1
  /\ nover = 0
  /\ yougile = OneOfEach
  /\ mm = Connected
  /\ dialog = [k \in Keys |-> [ended |-> FALSE, since |-> 0, menu |-> NoId]]

NextRetry ==
  \/ Tick
  \/ \E h \in Handlers : \E p \in DOMAIN posts : \E v \in DeadlineButtons :
       Click(h, p, "CHOOSE_DEADLINE", v)
  \/ \E h \in Handlers : ActLoad(h)
  \/ \E h \in Handlers : DeadlineSet(h)
  \/ \E h \in Handlers : DeadlineDate(h)
  \/ \E t \in Handlers : CreateTask(t)
  \/ \E t \in Handlers : UpdatePost(t)
  \/ \E t \in Handlers : SetOptionalAttach(t)

SpecRetry == InitRetry /\ [][NextRetry]_vars

\* ---------------------------------------------------------------- frames of two threads
\* run_ws_bot with frames of two threads of the channel: the create command
\* in T1, whose handling calls the task service (the resolver's lists, the
\* boards, the columns), and a mention of the bot in another thread, which
\* is answered with the menu.  The loop takes a frame with ws.recv() (line
\* 2008) when the handling of the frame before has returned.
OtherRoot == "T2"

\* The calls of start_task_creation that wait for the task service.
TaskServiceCalls == {"start_task_creation", "yg_get_boards", "yg_get_columns"}

InitFrames ==
  /\ Store = [k \in Keys |-> NoRecord]
  /\ CHANNEL_PROJECT_MAP \in {None, "P1"}
  /\ pc = [t \in Workers \cup {"sweeper"} |-> "idle"]
  /\ loc = [t \in Workers |-> IdleLoc]
  /\ items = [k \in Keys |-> NoItem]
  /\ cur = NoKey
  /\ snow = 0
  /\ now = 0
  /\ posts = <<>>
  /\ edits = {}
  /\ deleted = {}
  /\ tasks = <<>>
  /\ chat = <<>>
  /\ reacts = 0
  /\ nposted = 0
  /\ nclick = 0
  /\ picked = NoPick
  /\ nfail = 0
  /\ nover = 0
  /\ yougile \in [users : {Fetched(Roster)},
                  projects : {Fetched(l) : l \in ProjectLists},
                  boards : BoardLists, columns : ColumnLists]
  /\ mm = Connected
  /\ dialog = [k \in Keys |-> [ended |-> FALSE, since |-> 0, menu |-> NoId]]

NextFrames ==
  \/ \E title \in Titles : Posted("U1", "T1", "create", title, 0)
  \/ Posted("U1", OtherRoot, "mention", "", 0)
  \/ WsMenu
  \/ StartTaskCreation
  \/ StartDefault
  \/ StartReplace
  \/ PostProjectPrompt
  \/ FetchBoards("ws")
  \/ AutoBoard("ws")
  \/ FetchColumns("ws")
  \/ SetColumnOptions("ws")
  \/ PostColumnPrompt("ws")
  \/ SetBoardOptions("ws")
  \/ PostBoardPrompt("ws")
  \/ SetPostIds("ws")
  \/ WsReconnect

SpecFrames == InitFrames /\ [][NextFrames]_vars

\* ---------------------------------------------------------------- the end of a dialog
\* A dialog whose task was created at time 0 with the choice "none" (lines
\* 1606-1610, 1703-1805): the deadline prompt was edited, the "task created"
\* post with the Finish button is in the thread, the record waits in
\* OPTIONAL_ATTACH.  The actor presses Finish, or the sweeper finds the
\* record idle, or both.
TaskCreated ==
  [AwaitsDeadline(0, 0) EXCEPT !.step = "OPTIONAL_ATTACH",
                               !.deadline_choice = "none",
                               !.post_ids = <<1, 2>>,
                               !.yougile_task_id = 1, !.task_url = 1]

InitFinish ==
  /\ now \in {0, Leap}
  /\ Store = [k \in Keys |-> IF k = DeadlineKey THEN TaskCreated ELSE NoRecord]
  /\ CHANNEL_PROJECT_MAP = None
  /\ pc = [t \in Workers \cup {"sweeper"} |-> "idle"]
  /\ loc = [t \in Workers |-> IdleLoc]
  /\ items = [k \in Keys |-> NoItem]
  /\ cur = NoKey
  /\ snow = 0
  /\ posts = <<DeadlinePrompt,
               Post("task_created", "U1", "T1", "Buy license", None, None, {})>>
  /\ edits = {<<1, "deadline_chosen">>}
  /\ deleted = {}
  /\ tasks = <<[args |-> CreateArgs("Buy license", TaskCreated),
                body |-> yg_create_task(CreateArgs("Buy license", TaskCreated)),
                by |-> DeadlineKey]>>
  /\ chat = <<>>
  /\ reacts = 0
  /\ nposted = 0
  /\ nclick = 1
  /\ picked = [NoPick EXCEPT !.choice = "none", !.day = 0]
  /\ nfail = 0
  /\ nover = 0
  /\ yougile = OneOfEach
  /\ mm = Connected
  /\ dialog = [k \in Keys |-> [ended |-> FALSE, since |-> 0, menu |-> NoId]]

NextFinish ==
  \/ Tick
  \/ \E h \in Handlers : \E p \in DOMAIN posts : Click(h, p, "FINISH", None)
  \/ \E h \in Handlers : ActLoad(h)
  \/ \E h \in Handlers : FinishLoad(h)
  \/ \E h \in Handlers : FinishClear(h)
  \/ SweepStart
  \/ \E k \in Keys : SweepItem(k)
  \/ SweepSleep
  \/ AutoFinish
  \/ AutoClear

SpecFinish == InitFinish /\ [][NextFinish]_vars

\* ---------------------------------------------------------------- the two locks
\* STATE_LOCK and CHANNEL_MAP_LOCK (lines 100, 107) are threading.Lock
\* objects: not reentrant, released when the with block is left.  Here
\* loc[t] is the stack of the with blocks thread t has entered or waits to
\* enter: a frame [op, at] with at = 0 waits for the lock of op, with
\* at = k >= 1 it holds the lock and is at statement k of the block.
StateOps ==
  {"set_state", "get_state", "clear_state", "start_task_creation",
   "auto_cleanup_loop"}

ChannelOps ==
  {"get_default_project_for_channel", "set_default_project_for_channel",
   "delete_default_project_for_channel"}

LockOps == StateOps \cup ChannelOps

LockOf(op) == IF op \in ChannelOps THEN "CHANNEL_MAP_LOCK" ELSE "STATE_LOCK"

\* For comparison: a set_default_project_for_channel that drops the dialog
\* record before it saves the map.
InsideClearsDialogs(op) ==
  CASE op = "set_default_project_for_channel" ->
         <<"write", "clear_state", "save_channel_map">>
    [] op = "delete_default_project_for_channel" ->
         <<"write", "save_channel_map">>
    [] op \in {"get_state", "auto_cleanup_loop",
               "get_default_project_for_channel"} -> <<"read">>
    [] OTHER -> <<"write">>

\* The statements inside each with block: a read or a write of the dict, the
\* saving of the map to its file (lines 126-135), "http" for a call to the
\* chat platform or the task service, the name of a block for a call that
\* enters it.  Lines 139-143, 146-151, 154-157, 165-171, 176-177, 182-183,
\* 1960-1968, 2261-2262.
Inside(op) ==
  CASE op \in {"set_default_project_for_channel",
               "delete_default_project_for_channel"} ->
         <<"write", "save_channel_map">>
    [] op \in {"get_state", "auto_cleanup_loop",
               "get_default_project_for_channel"} -> <<"read">>
    [] OTHER -> <<"write">>

\* The blocks each thread enters: mm_actions (lines 1086-1686, with
\* create_task_and_update_post), run_ws_bot (lines 2091-2234, with
\* start_task_creation and create_task_and_update_post), auto_cleanup_loop
\* (lines 2261-2272, with auto_finish_dialog).
CallsOf(t) ==
  CASE t \in Handlers -> {"set_state", "get_state", "clear_state"}
                           \cup ChannelOps
    [] t = "ws" -> {"set_state", "get_state", "start_task_creation",
                    "get_default_project_for_channel",
                    "delete_default_project_for_channel"}
    [] OTHER -> {"auto_cleanup_loop", "get_state", "clear_state"}

Top(t) == loc[t][Len(loc[t])]

Held(t) == {LockOf(loc[t][i].op) : i \in {j \in DOMAIN loc[t] : loc[t][j].at >= 1}}

Unlocked == <<Store, items, cur, snow, now, posts, edits, deleted, tasks, chat,
              reacts, nclick, nposted, nfail, nover, yougile, mm, dialog,
              picked>>

InitLocks ==
  /\ Store = [k \in Keys |-> NoRecord]
  /\ CHANNEL_PROJECT_MAP \in {None, "P1"}
  /\ pc = [t \in Workers \cup {"sweeper"} |-> "idle"]
  /\ loc = [t \in Workers \cup {"sweeper"} |-> <<>>]
  /\ items = [k \in Keys |-> NoItem]
  /\ cur = NoKey
  /\ snow = 0
  /\ now = 0
  /\ posts = <<>>
  /\ edits = {}
  /\ deleted = {}
  /\ tasks = <<>>
  /\ chat = <<>>
  /\ reacts = 0
  /\ nposted = 0
  /\ nclick = 0
  /\ picked = NoPick
  /\ nfail = 0
  /\ nover = 0
  /\ yougile = OneOfEach
  /\ mm = Connected
  /\ dialog = [k \in Keys |-> [ended |-> FALSE, since |-> 0, menu |-> NoId]]

\* The thread reaches a with statement.
LockCall(t, op) ==
  /\ pc[t] = "idle"
  /\ op \in CallsOf(t)
  /\ loc' = [loc EXCEPT ![t] = <<[op |-> op, at |-> 0]>>]
  /\ pc' = [pc EXCEPT ![t] = "wait"]
  /\ UNCHANGED <<CHANNEL_PROJECT_MAP, Unlocked>>

\* Lock.acquire returns: no thread holds the lock.
LockAcquire(t) ==
  /\ pc[t] = "wait"
  /\ \A u \in DOMAIN pc : LockOf(Top(t).op) \notin Held(u)
  /\ loc' = [loc EXCEPT ![t][Len(loc[t])].at = 1]
  /\ pc' = [pc EXCEPT ![t] = "in"]
  /\ UNCHANGED <<CHANNEL_PROJECT_MAP, Unlocked>>

\* One statement of the block.
LockStep(t) ==
  /\ pc[t] = "in"
  /\ Top(t).at <= Len(Inside(Top(t).op))
  /\ LET op == Top(t).op
         st == Inside(op)[Top(t).at]
         on == [loc[t] EXCEPT ![Len(loc[t])].at = @ + 1]
     IN  IF st \in LockOps
         THEN /\ loc' = [loc EXCEPT ![t] = Append(on, [op |-> st, at |-> 0])]
              /\ pc' = [pc EXCEPT ![t] = "wait"]
              /\ UNCHANGED CHANNEL_PROJECT_MAP
         ELSE /\ loc' = [loc EXCEPT ![t] = on]
              /\ pc' = pc
              /\ CHANNEL_PROJECT_MAP' =
                   CASE st = "write" /\ op = "set_default_project_for_channel"
                          -> "P1"
                     [] st = "write"
                          /\ op = "delete_default_project_for_channel"
                          -> None
                     [] OTHER -> CHANNEL_PROJECT_MAP
  /\ UNCHANGED Unlocked

\* The block is left and its lock released.
LockRelease(t) ==
  /\ pc[t] = "in"
  /\ Top(t).at > Len(Inside(Top(t).op))
  /\ loc' = [loc EXCEPT ![t] = SubSeq(loc[t], 1, Len(loc[t]) - 1)]
  /\ pc' = [pc EXCEPT ![t] = IF Len(loc[t]) = 1 THEN "idle" ELSE "in"]
  /\ UNCHANGED <<CHANNEL_PROJECT_MAP, Unlocked>>

\* A call to the chat platform or the task service outside every block, and
\* its return or its timeout.
Outbound(t) ==
  /\ pc[t] = "idle"
  /\ pc' = [pc EXCEPT ![t] = "http"]
  /\ UNCHANGED <<loc, CHANNEL_PROJECT_MAP, Unlocked>>

OutboundReturn(t) ==
  /\ pc[t] = "http"
  /\ pc' = [pc EXCEPT ![t] = "idle"]
  /\ UNCHANGED <<loc, CHANNEL_PROJECT_MAP, Unlocked>>

NextLocks ==
  \/ \E t \in DOMAIN pc : \E op \in LockOps : LockCall(t, op)
  \/ \E t \in DOMAIN pc : LockAcquire(t)
  \/ \E t \in DOMAIN pc : LockStep(t)
  \/ \E t \in DOMAIN pc : LockRelease(t)
  \/ \E t \in DOMAIN pc : Outbound(t)
  \/ \E t \in DOMAIN pc : OutboundReturn(t)

SpecLocks == InitLocks /\ [][NextLocks]_vars

\* ---------------------------------------------------------------- properties
Threads == Workers \cup {"sweeper"}

AllIdle == \A t \in Threads : pc[t] = "idle"

\* The labels whose step writes the record (set_state, clear_state) after
\* the thread has read or written it in an earlier step.
WriteLabels ==
  {"menu_create_task", "project_set", "auto_board", "set_column_options",
   "set_post_ids", "set_board_options", "board_set", "column_set",
   "assignee_set", "assignee_name", "deadline_set", "deadline_date",
   "set_optional_attach", "menu_cancel", "cancel_clear", "finish_clear",
   "ws_set_deadline", "ws_set_title", "ws_touch", "auto_clear"}

\* The key whose record the thread's next step writes.
KeyOf(t) ==
  IF t = "sweeper" THEN cur
  ELSE IF pc[t] = "set_optional_attach" THEN <<loc[t].key[1], loc[t].root>>
  ELSE loc[t].key

InSection(t) == pc[t] \in WriteLabels

\* The posts the bot made for the current dialog of key k that the dialog's
\* CANCEL is to delete.
PromptKinds ==
  {"project_prompt", "board_prompt", "column_prompt", "assignee_prompt",
   "deadline_prompt", "date_retry", "task_created"}

DialogPrompts(k) ==
  {p \in DOMAIN posts :
     /\ posts[p].root = k[2]
     /\ \/ p > dialog[k].since /\ posts[p].kind \in PromptKinds
        \/ p = dialog[k].menu}

\* The run so far is one dialog's clean run: one frame, the create command,
\* every click on a button its post shows, no two threads at work at once,
\* no call that raised.
CleanRun == nover = 0 /\ nfail = 0 /\ nposted = 1 /\ picked.title # None

\* C1: once CANCEL, FINISH or the sweeper's auto-finish was handled for a
\* key, the store holds no record for the key until a create command or a
\* MENU_CREATE_TASK click arrives for it.
C1_NoRecordAfterEnd ==
  \A k \in Keys : dialog[k].ended => ~Store[k].exists

\* C2: no two threads are at once between their first access to the record
\* of one key and a later write to it.
C2_NoInterleaving ==
  \A t, u \in Threads :
    (t # u /\ InSection(t) /\ InSection(u)) => KeyOf(t) # KeyOf(u)

\* C3: the sweeper posts the summary of, and removes, only a dialog whose
\* step is OPTIONAL_ATTACH at that moment.
C3_SweeperOnlyOptionalAttach ==
  [][/\ (pc["sweeper"] = "auto_finish" /\ pc'["sweeper"] = "auto_clear")
          => Store[cur].step = "OPTIONAL_ATTACH"
     /\ (pc["sweeper"] = "auto_clear" /\ pc'["sweeper"] # "auto_clear"
           /\ Store[cur].exists)
          => Store[cur].step = "OPTIONAL_ATTACH"]_vars

\* C4: CANCEL of a dialog whose record is in the store issues a delete for
\* every prompt the bot posted for the dialog
\* (title prompt, project, board, column, assignee, deadline, date-retry,
\* task-created) and for no other post, and removes the record.
C4_CancelDeletesThePrompts ==
  [][\A h \in Handlers :
       /\ (pc[h] = "cancel_load" /\ pc'[h] = "cancel_clear"
             /\ Store[loc[h].key].exists)
            => /\ DialogPrompts(loc[h].key) \subseteq deleted'
               /\ (deleted' \ deleted) \subseteq DialogPrompts(loc[h].key)
       /\ (pc[h] = "cancel_clear" /\ pc'[h] # "cancel_clear")
            => ~Store'[loc[h].key].exists]_vars

\* C5: when the project has no boards or the board has no columns, the
\* dialog ends: a message says so, no task is created, and no record remains
\* in the store for the key.
C5_NothingToChooseEndsDialog ==
  [][\A t \in Workers :
       (pc[t] \in {"yg_get_boards", "yg_get_columns"} /\ pc'[t] = "idle"
          /\ nfail' = nfail)
         => /\ posts' # posts \/ edits' # edits
            /\ tasks' = tasks
            /\ ~Store'[loc[t].key].exists]_vars

AfterBoards == {"auto_board", "yg_get_columns", "set_column_options",
                "post_column_prompt", "set_board_options", "post_board_prompt"}

\* C7: when the project has exactly one board, the board is stored as the
\* selection without a prompt, the next post the thread makes for the dialog
\* is the column prompt (or the message that the board has no columns), and
\* no board prompt is ever posted.
C7_OneBoardSkipsBoardPrompt ==
  /\ [](Len(yougile.boards) = 1
          => \A p \in DOMAIN posts : posts[p].kind # "board_prompt")
  /\ [][\A t \in Workers :
          /\ (pc[t] = "yg_get_boards" /\ pc'[t] \notin {"yg_get_boards", "idle",
                                                        "ws_reconnect"}
                /\ Len(yougile.boards) = 1)
               => pc'[t] = "auto_board"
          /\ (pc[t] = "auto_board" /\ pc'[t] # "auto_board")
               => /\ Store'[loc[t].key].board_id = yougile.boards[1]
                  /\ Store'[loc[t].key].step = "CHOOSE_BOARD"
          /\ (pc[t] \in AfterBoards /\ pc'[t] # pc[t] /\ posts' # posts
                /\ nfail' = nfail /\ Len(loc[t].boards) = 1)
               => posts'[Len(posts')].kind \in {"column_prompt", "no_columns"}
       ]_vars

\* The project was clicked, it has one board, and the column prompt is there
\* with the board stored.
C7_Witness ==
  /\ CHANNEL_PROJECT_MAP = None
  /\ Len(yougile.boards) = 1
  /\ \E p \in DOMAIN posts : posts[p].kind = "project_prompt"
  /\ \E p \in DOMAIN posts : posts[p].kind = "column_prompt"
  /\ \E k \in Keys : Store[k].exists /\ Store[k].board_id = "B1"
                     /\ Store[k].step = "CHOOSE_BOARD"

\* C8: while the dialog waits for a custom date, a message whose text is not
\* a YYYY-MM-DD date leaves the store and the tasks as they are and posts the
\* retry prompt; a message whose text is one stores the date, creates the
\* task with it and moves the record to OPTIONAL_ATTACH.
C8_CustomDateRetryThenCreate ==
  [][/\ (pc["ws"] = "ws_custom_date" /\ pc'["ws"] # "ws_custom_date"
           /\ WaitsForDate(Store[loc["ws"].key]) /\ loc["ws"].text # ""
           /\ ParseDate(loc["ws"].text) = NoDate /\ nfail' = nfail)
          => /\ Store' = Store
             /\ tasks' = tasks
             /\ posts' = Append(posts, Notice("date_retry", loc["ws"].key[2]))
     /\ (pc["ws"] = "ws_set_deadline" /\ pc'["ws"] # "ws_set_deadline"
           /\ nfail' = nfail)
          => /\ pc'["ws"] = "create_task"
             /\ Store'[loc["ws"].key].deadline = loc["ws"].date
     /\ (pc["ws"] = "create_task" /\ tasks' # tasks)
          => tasks'[Len(tasks')].args.deadline = loc["ws"].date
     /\ (pc["ws"] = "set_optional_attach" /\ pc'["ws"] = "idle")
          => Store'[loc["ws"].key].step = "OPTIONAL_ATTACH"]_vars

\* C9: when the create-task call fails, the error is posted in the dialog's
\* thread, the record is left as it is, and the thread stops without another
\* create-task call.
C9_CreateFailureReported ==
  [][\A t \in Workers :
       (pc[t] = "create_task" /\ pc'[t] # "create_task" /\ tasks' = tasks)
         => /\ posts' = Append(posts, Notice("error", loc[t].key[2]))
            /\ Store' = Store
            /\ pc'[t] \in {"idle", "ws_reconnect"}]_vars

\* C10: CANCEL is handled whatever the record's step, a created task's
\* included: it removes the record and the prompts the bot posted for the
\* dialog, and makes no call to the task service: the tasks and their chats
\* are as before.
C10_CancelRemovesDialogOnly ==
  [][\A h \in Handlers :
       /\ (pc[h] = "mm_actions" /\ pc'[h] # "mm_actions"
             /\ loc[h].step = "CANCEL")
            => pc'[h] = "cancel_load" /\ tasks' = tasks /\ chat' = chat
       /\ (pc[h] = "cancel_load" /\ pc'[h] # "cancel_load")
            => /\ pc'[h] = "cancel_clear"
               /\ Store[loc[h].key].exists
                    => DialogPrompts(loc[h].key) \subseteq deleted'
               /\ tasks' = tasks /\ chat' = chat
       /\ (pc[h] = "cancel_clear" /\ pc'[h] # "cancel_clear")
            => /\ ~Store'[loc[h].key].exists
               /\ tasks' = tasks /\ chat' = chat]_vars

C12_DueDialogIsFinished ==
  [][/\ (pc["sweeper"] = "auto_finish" /\ pc'["sweeper"] # "auto_finish"
           /\ Store[cur].exists /\ Eligible(Store[cur], snow)
           /\ nfail' = nfail)
          => /\ pc'["sweeper"] = "auto_clear"
             /\ posts' = posts \o <<Notice("summary", cur[2]),
                                    Notice("auto_marker", cur[2])>>
     /\ (pc["sweeper"] = "auto_clear" /\ pc'["sweeper"] # "auto_clear")
          => ~Store'[cur].exists]_vars

DaysAhead(choice) ==
  CASE choice = "today" -> 0
    [] choice = "tomorrow" -> 1
    [] choice = "day_after_tomorrow" -> 2
    [] choice = "week" -> 7
    [] choice = "month" -> 30

OffsetChoices ==
  {"today", "tomorrow", "day_after_tomorrow", "week", "month"}

C14_DeadlineIsHandlingDayPlusOffset ==
  [][\A h \in Handlers :
       /\ (pc[h] = "deadline_date" /\ pc'[h] = "create_task"
             /\ loc[h].value \in OffsetChoices)
          => Store'[loc[h].key].deadline = Today + DaysAhead(loc[h].value)
       /\ (pc[h] = "create_task" /\ pc'[h] = "update_post"
             /\ loc[h].value \in OffsetChoices /\ nover = 0)
          => /\ Len(tasks') = Len(tasks) + 1
             /\ tasks'[Len(tasks')].args.deadline
                  = Today + DaysAhead(loc[h].value)]_vars

\* A task created with "month" on a day after the day the dialog began.
C14_Witness ==
  /\ nover = 0
  /\ picked.choice = "month"
  /\ Store[DeadlineKey].exists
  /\ Store[DeadlineKey].created_at \div Leap < picked.day
  /\ Len(tasks) = 1
  /\ tasks[1].args.deadline = picked.day + 30

\* C15: when no arrival overlapped a handler, the body of a task created
\* for a record whose choice is "none" has no deadline field, and the body of
\* a task created for any other choice has the deadline field with the epoch
\* milliseconds of 12:00:00 UTC of the chosen date (for an offset choice the
\* day of the click plus the offset, for "custom" the date of the message)
\* and withTime false.
NoonOf(d) ==
  [deadline |-> [day |-> d, ms_of_day |-> 43200000], withTime |-> FALSE]

C15_BodyCarriesNoonOfChosenDate ==
  [][\A t \in Workers :
       (pc[t] = "create_task" /\ pc'[t] = "update_post" /\ nover = 0)
         => LET choice == Deref(t).deadline_choice
                body == tasks'[Len(tasks')].body
            IN  /\ Len(tasks') = Len(tasks) + 1
                /\ choice \in DeadlineChoices
                /\ choice = "none" => "deadline" \notin DOMAIN body
                /\ choice \in OffsetChoices
                     => /\ "deadline" \in DOMAIN body
                        /\ body.deadline
                             = NoonOf(picked.day + DaysAhead(choice))
                /\ choice = "custom"
                     => /\ t = "ws"
                        /\ "deadline" \in DOMAIN body
                        /\ body.deadline = NoonOf(ParseDate(loc[t].text))]_vars

\* A task created for the date a message gave after the "custom" button.
C15_Witness ==
  /\ nover = 0
  /\ picked.choice = "custom"
  /\ Len(tasks) = 1
  /\ "deadline" \in DOMAIN tasks[1].body
  /\ tasks[1].body.deadline
       = [deadline |-> [day |-> 13, ms_of_day |-> 43200000],
          withTime |-> FALSE]

\* C16: a callback changes the step of an existing record only forward along
\* title -> project -> board -> column -> assignee -> deadline -> wait after
\* creation (MENU_CREATE_TASK apart, which begins at the title); a callback
\* for a step the dialog has passed leaves the record's step as it is.
Rank(step) ==
  CASE step = "ASK_TASK_TITLE" -> 1
    [] step = "CHOOSE_PROJECT" -> 2
    [] step = "CHOOSE_BOARD" -> 3
    [] step = "CHOOSE_COLUMN" -> 4
    [] step = "CHOOSE_ASSIGNEE" -> 5
    [] step = "CHOOSE_DEADLINE" -> 6
    [] step = "OPTIONAL_ATTACH" -> 7
    [] OTHER -> 0

C16_CallbackMovesStepForward ==
  [][\A h \in Handlers : \A k \in Keys :
       (/\ pc'[h] # pc[h]
        /\ Store[k].exists /\ Store[k].step # None
        /\ Store'[k].exists
        /\ Store'[k].step \notin {Store[k].step, "ASK_TASK_TITLE"})
         => Rank(Store'[k].step) > Rank(Store[k].step)]_vars

\* C17: every record that has both timestamps has updated_at >= created_at,
\* also when two set_state calls for its key overlap.
C17_UpdatedNotBeforeCreated ==
  \A k \in Keys :
    (Store[k].exists /\ Store[k].created_at # NoTime
       /\ Store[k].updated_at # NoTime)
      => Store[k].updated_at >= Store[k].created_at

\* C18: a CHOOSE_DEADLINE callback that carries no choice is ignored: no step
\* of its handler changes the store, posts, edits a post or creates a task.
C18_CallbackWithoutChoiceIgnored ==
  [][\A h \in Handlers :
       (/\ pc[h] # "idle" /\ pc'[h] # pc[h]
        /\ loc[h].step = "CHOOSE_DEADLINE" /\ loc[h].value = None)
         => UNCHANGED <<Store, posts, edits, tasks>>]_vars

\* C19: the handling of a trigger for a key leaves the record of every other
\* key as it is and creates no record under another key; the same holds for
\* the sweeper and the key it is finishing.
C19_OnlyTheTriggersKey ==
  [][/\ \A t \in Workers :
          (pc[t] # "idle" /\ pc'[t] # pc[t])
            => \A k \in Keys : k # loc[t].key => Store'[k] = Store[k]
     /\ (pc'["sweeper"] # pc["sweeper"])
          => \A k \in Keys : k # cur => Store'[k] = Store[k]]_vars

\* C20: an auto-finish that fails leaves the sweeper in its pass, with the
\* rest of its snapshot and the store as they were; every item of the
\* snapshot that is due is handed to auto_finish_dialog; the pass ends, and
\* the sweeper is idle until its next pass, only when no item is left.
C20_FailureDoesNotStopTheScan ==
  [][/\ (pc["sweeper"] = "auto_finish" /\ nfail' = nfail + 1)
          => /\ pc'["sweeper"] = "scan"
             /\ items' = items
             /\ Store' = Store
     /\ \A k \in Keys :
          (pc["sweeper"] = "scan" /\ items[k].pending /\ ~items'[k].pending
             /\ Eligible(IF items[k].live THEN Store[k] ELSE items[k].state,
                         snow))
            => pc'["sweeper"] = "auto_finish" /\ cur' = k
     /\ (pc["sweeper"] = "scan" /\ pc'["sweeper"] = "idle")
          => \A k \in Keys : ~items[k].pending]_vars

\* After the auto-finish of T1's dialog failed, the pass has gone on to the
\* other due record.
C20_Witness ==
  /\ nfail = 1
  /\ Store[DeadlineKey].exists
  /\ Eligible(Store[DeadlineKey], snow)
  /\ ~items[DeadlineKey].pending
  /\ pc["sweeper"] = "auto_finish"
  /\ cur = StrayKey

\* C21: when a call raises while a callback or a posted message is handled,
\* the step in which it raises posts the error notice in the thread of the
\* trigger.
C21_FailureReportedInThread ==
  [][\A t \in Workers :
       (nfail' = nfail + 1 /\ pc'[t] # pc[t])
         => /\ Len(posts') = Len(posts) + 1
            /\ posts'[Len(posts')] = Notice("error", loc[t].key[2])]_vars

\* C22: after a disconnect or a failed connection or handshake the client
\* sleeps and then connects again, every time; when the platform accepts
\* connections from some moment on, a client that is not receiving is
\* receiving again later.
C22_ClientReconnects ==
  /\ (pc["ws"] = "ws_reconnect") ~> (pc["ws"] = "ws_connect")
  /\ (<>[](mm.accepts)) => ((pc["ws"] # "idle") ~> (pc["ws"] = "idle"))

\* The client receives on its third connection.
C22_Witness ==
  /\ pc["ws"] = "idle"
  /\ mm.conn = 3
  /\ mm.frames = 1

\* C23: a frame that is not a posted message or cannot be parsed is dropped:
\* the store, the channel's default project and the posts are unchanged and
\* the client goes on receiving on the same connection.
C23_DroppedFrameKeepsConnection ==
  [][(pc["ws"] = "idle" /\ mm'.frames = mm.frames + 1)
       => /\ pc'["ws"] = "idle"
          /\ mm'.conn = mm.conn
          /\ UNCHANGED <<Store, CHANNEL_PROJECT_MAP, posts, edits>>]_vars

\* C24: for an actor whose profile has an email and a roster and project
\* list that were fetched, the resolver returns, once each and in the order
\* of the list, the projects that are not deleted and have a member whose
\* roster email, trimmed and lower-cased, is the actor's trimmed, lower-cased
\* email; a create command offers exactly these projects, or posts the
\* no-access message when there is none.
Resolved ==
  /\ mm.email \notin {Fails, "", "  "}
  /\ yougile.users.ok /\ yougile.projects.ok

\* The spellings of one address.
Spellings == {{" Ann@X.io ", "ann@x.io"}, {"Bob@x.io", "bob@x.io"}}

SameAddress(a, b) == \E c \in Spellings : a \in c /\ b \in c

MemberByEmail(p) ==
  \E i \in DOMAIN yougile.users.content :
    /\ yougile.users.content[i].id \in p.users
    /\ SameAddress(yougile.users.content[i].email, mm.email)

OpenToActor(p) == ~p.deleted /\ MemberByEmail(p)

C24_AllowedAreMembersProjects ==
  [][(pc["ws"] = "start_task_creation" /\ pc'["ws"] # pc["ws"] /\ Resolved)
       => LET res == get_allowed_projects_for_mm_user(
                       mm.email, yougile.users, yougile.projects)
          IN  /\ res = SelectSeq(yougile.projects.content, OpenToActor)
              /\ res # <<>>
                   => /\ pc'["ws"] = "start_replace"
                      /\ loc'["ws"].allowed = {res[i].id : i \in DOMAIN res}
              /\ res = <<>>
                   => posts' = Append(posts,
                                      Notice("no_access", loc["ws"].key[2]))]_vars

\* The prompt offers P1 alone to an actor whose email differs in case and
\* blanks from the roster's and who is also a member of the deleted P2.
C24_Witness ==
  /\ Resolved
  /\ mm.email = " Ann@X.io "
  /\ Len(yougile.projects.content) = 2
  /\ yougile.projects.content[2].deleted
  /\ "Y1" \in yougile.projects.content[2].users
  /\ \E p \in DOMAIN posts :
       posts[p].kind = "project_prompt" /\ posts[p].opts = {"P1"}

\* C25: when the profile lookup fails or gives no email, or the roster or
\* the project list cannot be fetched, the resolver returns nothing and a
\* create command posts the no-access message and ends: no record, no
\* project prompt, no task.
C25_UnresolvedActorHasNoAccess ==
  /\ []((~Resolved)
          => /\ get_allowed_projects_for_mm_user(
                  mm.email, yougile.users, yougile.projects) = <<>>
             /\ \A p \in DOMAIN posts : posts[p].kind # "project_prompt"
             /\ tasks = <<>>
             /\ \A k \in Keys : ~Store[k].exists)
  /\ [][(pc["ws"] = "start_task_creation" /\ pc'["ws"] # pc["ws"]
            /\ ~Resolved)
          => /\ posts' = Append(posts, Notice("no_access", loc["ws"].key[2]))
             /\ pc'["ws"] = "idle"]_vars

\* The roster could not be fetched; the actor, a member of P1 by the roster,
\* got the no-access message.
C25_Witness ==
  /\ ~yougile.users.ok
  /\ mm.email = " Ann@X.io "
  /\ Len(yougile.projects.content) = 2
  /\ ~yougile.projects.content[1].deleted
  /\ "Y1" \in yougile.projects.content[1].users
  /\ pc["ws"] = "idle"
  /\ \E p \in DOMAIN posts : posts[p].kind = "no_access"

\* C26: set_state on a missing key makes a record whose created_at equals its
\* updated_at; on a record it changes the fields it is given and updated_at
\* and nothing else; and a created_at, once a record has it, stays as it is
\* for as long as a record is under the key.
C26_CreatedAtKept ==
  [][\A k \in Keys :
       /\ (~Store[k].exists /\ Store'[k].exists
             /\ Store'[k].created_at # NoTime)
            => Store'[k].created_at = Store'[k].updated_at
       /\ (Store[k].exists /\ Store'[k].exists
             /\ Store[k].created_at # NoTime)
            => Store'[k].created_at = Store[k].created_at
       /\ \A t \in Workers :
            (pc[t] = "set_post_ids" /\ pc'[t] # pc[t] /\ loc[t].key = k
               /\ Store[k].exists /\ Store[k].created_at # NoTime)
            => /\ Store'[k].updated_at = now
               /\ \A f \in DOMAIN NoRecord \ {"post_ids", "updated_at"} :
                    Store'[k][f] = Store[k][f]]_vars

\* C27: one dialog creates at most one task: a deadline callback delivered
\* again, or a second date message, after the dialog's task was created or
\* while it is being created, makes no further create-task call.  The
\* dialog is the one that awaits its deadline under DeadlineKey.
C27_OneTaskPerDialog ==
  Cardinality({i \in DOMAIN tasks : tasks[i].by = DeadlineKey}) <= 1

\* C28: a dialog gets at most one final summary in its thread, whatever FINISH
\* callbacks (repeated ones, one for a key without a record) and sweeper
\* auto-finish act on it, in whatever order.  The dialog's summaries are
\* the ones posted to the key's thread since the dialog began.
C28_OneSummaryPerDialog ==
  \A k \in Keys :
    Cardinality({p \in DOMAIN posts :
                   /\ p > dialog[k].since
                   /\ posts[p].kind = "summary"
                   /\ posts[p].root = k[2]}) <= 1

\* C29: a handler's update of a record is one step under the lock, made from
\* the record as it is then: when a callback's handler appends the id of the
\* prompt it has just posted to the record's list of message ids, every id
\* the list held is still in it, the ids another handler for the key has
\* appended meanwhile included.
C29_AppendKeepsOtherIds ==
  [][\A t \in Handlers :
       (pc[t] = "set_post_ids" /\ pc'[t] # pc[t]
          /\ Store[loc[t].key].exists)
       => Range(Store[loc[t].key].post_ids)
            \subseteq Range(Store'[loc[t].key].post_ids)]_vars

\* C30: while a record stays under a key, its list of message ids only
\* grows: an id once in the list (the title prompt's, which MENU_CREATE_TASK
\* records, included) is in it after every later step for the key, the
\* title message's and a repeated create command's included.
C30_PostIdsOnlyGrow ==
  [][\A k \in Keys :
       (Store[k].exists /\ Store'[k].exists)
       => \A i \in DOMAIN Store[k].post_ids :
            \E j \in DOMAIN Store'[k].post_ids :
               Store'[k].post_ids[j] = Store[k].post_ids[i]]_vars

\* C31: every record in the store has a step, one of the step names the
\* dialog assigns; no record is without a step, such as one a refresh of
\* updated_at or a late callback would make under a key whose record is gone.
C31_EveryRecordHasStep ==
  \A k \in Keys :
    Store[k].exists
      => Store[k].step \in {"ASK_TASK_TITLE", "CHOOSE_PROJECT", "CHOOSE_BOARD",
                            "CHOOSE_COLUMN", "CHOOSE_ASSIGNEE",
                            "CHOOSE_DEADLINE", "OPTIONAL_ATTACH"}

\* C32: the sweeper removes the record of a dialog that waits after its
\* task's creation only when, at the removal, more than the timeout has
\* passed since the record's updated_at: a relay that
\* refreshes updated_at after the snapshot and before the removal prevents
\* the auto-finish.
C32_RemovedOnlyWhenIdle ==
  [][(pc["sweeper"] = "auto_clear" /\ pc'["sweeper"] # "auto_clear"
        /\ Store[cur].exists /\ Store[cur].step = "OPTIONAL_ATTACH"
        /\ Store[cur].updated_at # NoTime)
       => now - Store[cur].updated_at > AUTO_FINISH_TIMEOUT_MINUTES]_vars

\* C33: a dialog's title, once it is set, stays as it is while the record
\* exists, and the task is created with the stored title: a callback whose
\* context carries another task_title changes neither the stored title nor
\* the title given to yg_create_task.
C33_TitleKept ==
  [][/\ \A k \in Keys :
          (Store[k].exists /\ Store'[k].exists
             /\ Store[k].task_title \notin {None, Missing})
          => Store'[k].task_title = Store[k].task_title
     /\ \A t \in Workers :
          (pc[t] = "create_task" /\ Len(tasks') = Len(tasks) + 1
             /\ Store[loc[t].key].exists)
          => tasks'[Len(tasks')].args.title = Store[loc[t].key].task_title]_vars

\* C34: a selection of a dialog (project, board, column, assignee, deadline
\* choice, deadline date), once set, stays set while a record is under the
\* key: the selections go only when the record is removed.
C34_SelectionsStaySet ==
  [][\A k \in Keys :
       (Store[k].exists /\ Store'[k].exists)
       => /\ \A f \in {"project_id", "board_id", "column_id", "assignee_id",
                       "deadline_choice"} :
               Store[k][f] # None => Store'[k][f] # None
          /\ Store[k].deadline # NoDate => Store'[k].deadline # NoDate]_vars

\* C35: after the create-task call of a dialog has failed, no trigger for the
\* dialog other than CANCEL makes another create-task call or takes the
\* dialog to the wait that follows the creation.
C35_NoRetryAfterFailure ==
  /\ tasks = <<>>
  /\ Store[DeadlineKey].exists => Store[DeadlineKey].step # "OPTIONAL_ATTACH"

\* C36: while the handling of a trigger waits for a collaborator's answer,
\* the triggers of other dialogs can be handled: while the create command
\* of thread T1 waits for the task service, the loop can take up a posted
\* message of another thread.
C36_OtherThreadNotBlocked ==
  (/\ pc["ws"] \in TaskServiceCalls
   /\ loc["ws"].key = <<"U1", "T1">>
   /\ nposted < MaxPosted
   /\ nover + nfail < MaxDisorder)
  => ENABLED Posted("U1", OtherRoot, "mention", "", 0)

\* C37: a dialog started by a create command gets the channel's default
\* project only if that project is open to the actor, and then the stored
\* project is the default; when the actor has projects and the default is
\* not among them, the record is stored without project and the project
\* prompt posted lists exactly the actor's projects.
OpenIds ==
  {yougile.projects.content[i].id :
     i \in {j \in DOMAIN yougile.projects.content :
              OpenToActor(yougile.projects.content[j])}}

C37_DefaultOnlyIfAllowed ==
  /\ [][(pc["ws"] = "start_task_creation" /\ pc'["ws"] # pc["ws"] /\ Resolved)
         => /\ pc'["ws"] = "start_default" => CHANNEL_PROJECT_MAP \in OpenIds
            /\ (OpenIds # {} /\ CHANNEL_PROJECT_MAP \notin OpenIds)
                 => pc'["ws"] = "start_replace"]_vars
  /\ [][(pc["ws"] = "start_default" /\ pc'["ws"] # pc["ws"])
         => /\ CHANNEL_PROJECT_MAP \in OpenIds
            /\ Store'[loc["ws"].key].project_id = CHANNEL_PROJECT_MAP]_vars
  /\ [][(pc["ws"] = "start_replace" /\ pc'["ws"] # pc["ws"])
         => /\ CHANNEL_PROJECT_MAP \notin OpenIds
            /\ Store'[loc["ws"].key].project_id = None]_vars
  /\ [][(pc["ws"] = "post_project_prompt" /\ pc'["ws"] = "set_post_ids")
         => /\ posts'[Len(posts')].kind = "project_prompt"
            /\ posts'[Len(posts')].opts = OpenIds]_vars

\* The channel's default is P2, the actor's only project is P1: the prompt
\* offers P1 and the record has no project.
C37_Witness ==
  /\ CHANNEL_PROJECT_MAP = "P2"
  /\ OpenIds = {"P1"}
  /\ pc["ws"] = "idle"
  /\ Store[<<"U1", "T1">>].exists
  /\ Store[<<"U1", "T1">>].project_id = None
  /\ \E p \in DOMAIN posts :
       posts[p].kind = "project_prompt" /\ posts[p].opts = {"P1"}

\* C38: no thread holds the dialog-store lock and the channel-map lock at
\* once, no thread is in a call to the chat platform or the task service
\* while it holds the dialog-store lock, a lock has one holder at most, and
\* whenever a thread waits for a lock its holder is running inside the block
\* and not waiting itself: the threads do not deadlock on the two locks.
InCall(t) ==
  \/ pc[t] = "http"
  \/ /\ pc[t] = "in"
     /\ Top(t).at <= Len(Inside(Top(t).op))
     /\ Inside(Top(t).op)[Top(t).at] = "http"

C38_LocksNeverNested ==
  /\ \A t \in DOMAIN pc : Cardinality(Held(t)) <= 1
  /\ \A t \in DOMAIN pc : InCall(t) => "STATE_LOCK" \notin Held(t)
  /\ \A t, u \in DOMAIN pc : t # u => Held(t) \cap Held(u) = {}
  /\ \A t \in DOMAIN pc :
       pc[t] = "wait"
         => /\ Held(t) = {}
            /\ \A u \in DOMAIN pc :
                 LockOf(Top(t).op) \in Held(u) => pc[u] = "in"

\* A callback saves the channel map under the channel-map lock while the
\* event stream thread holds the dialog-store lock, the other callback waits
\* for it and the sweeper is in an outbound call.
C38_Witness ==
  /\ pc["h1"] = "in" /\ Top("h1").op = "set_default_project_for_channel"
  /\ Top("h1").at = 2
  /\ pc["ws"] = "in" /\ Top("ws").op = "start_task_creation"
  /\ pc["h2"] = "wait" /\ Top("h2").op = "clear_state"
  /\ pc["sweeper"] = "http"

\* C39: unless a call raises, the automatic finish posts the summary and
\* then the marker, both in the dialog's thread and nothing in the channel;
\* a FINISH callback posts the summary in the thread and then in the channel
\* and no marker.  No other step posts a marker or a summary in the channel.
Added == SubSeq(posts', Len(posts) + 1, Len(posts'))

C39_AutoSummaryInThreadWithMarker ==
  [][/\ (pc["sweeper"] = "auto_finish" /\ pc'["sweeper"] = "auto_clear")
          => /\ Added = <<Notice("summary", cur[2]),
                          Notice("auto_marker", cur[2])>>
             /\ cur[2] # None
     /\ \A h \in Handlers :
          (pc[h] = "finish_load" /\ pc'[h] = "finish_clear")
            => Added = <<Notice("summary", loc[h].key[2]),
                         Notice("summary_channel", None)>>
     /\ \A i \in DOMAIN Added :
          /\ Added[i].kind = "auto_marker"
               => pc["sweeper"] = "auto_finish" /\ pc'["sweeper"] = "auto_clear"
          /\ Added[i].kind = "summary_channel"
               => \E h \in Handlers :
                    pc[h] = "finish_load" /\ pc'[h] = "finish_clear"]_vars

\* A dialog was finished by the sweeper: its summary and then the marker are
\* the last posts of the thread, the channel has no copy, the record is gone.
C39_Witness ==
  /\ Len(posts) >= 2
  /\ posts[Len(posts) - 1] = Notice("summary", "T1")
  /\ posts[Len(posts)] = Notice("auto_marker", "T1")
  /\ \A p \in DOMAIN posts : posts[p].kind # "summary_channel"
  /\ Len(tasks) = 1
  /\ pc["sweeper"] = "scan"
  /\ \A k \in Keys : ~Store[k].exists

====
